---- MODULE Spec2Model ----
(***************************************************************************)
(* Nichefy niche-artist discovery: the latest engine                       *)
(* (backend/functions/niche_logic.py) and the legacy related-artists       *)
(* engine (backend/niche_logic.py), as one state machine over the catalog  *)
(* and suggestion-source responses.                                        *)
(***************************************************************************)
EXTENDS Integers, Sequences, FiniteSets, TLC

(***************************************************************************)
(* Bounds of the model.                                                    *)
(***************************************************************************)
\* longest catalog response (items of one search / related-artists reply)
MaxHits == 2
\* longest list of names the suggestion source returns
MaxNames == 2
\* largest min_length of a top-level call
MaxMinLength == 2

(***************************************************************************)
(* Program constants.                                                      *)
(***************************************************************************)
\* depth < 2 in the recursion guard
MaxDepth == 2
\* seed_genres[:2]
GenreLimit == 2

(***************************************************************************)
(* Text: a string is a sequence of characters.                             *)
(***************************************************************************)
\* str.lower() on the alphabet of the model
LowerChar(c) ==
    CASE c = "A" -> "a"
      [] c = "B" -> "b"
      [] c = "E" -> "e"
      [] c = "N" -> "n"
      [] c = "O" -> "o"
      [] c = "V" -> "v"
      [] OTHER -> c

lower(s) == [i \in 1..Len(s) |-> LowerChar(s[i])]

RECURSIVE lstrip(_)
lstrip(s) == IF s # <<>> /\ Head(s) = " " THEN lstrip(Tail(s)) ELSE s

RECURSIVE rstrip(_)
rstrip(s) ==
    IF s # <<>> /\ s[Len(s)] = " " THEN rstrip(SubSeq(s, 1, Len(s) - 1)) ELSE s

\* str.strip()
strip(s) == rstrip(lstrip(s))

\* Python's `a in b` on strings
IsSubstring(a, b) ==
    \E i \in 0..(Len(b) - Len(a)) : SubSeq(b, i + 1, i + Len(a)) = a

(***************************************************************************)
(* The catalog: artist objects, named by their identifier.                 *)
(***************************************************************************)
Catalog ==
    << [name |-> <<"A", "b">>,           popularity |-> 90],
       [name |-> <<"E", "v", "e">>,      popularity |-> 20],
       [name |-> <<"E", "V", "E", "N">>, popularity |-> 30],
       [name |-> <<"B", "o">>,           popularity |-> 30],
       [name |-> <<"B", "o", "b">>,      popularity |-> 70] >>

ArtistIds == DOMAIN Catalog

Name(a) == Catalog[a].name
Popularity(a) == Catalog[a].popularity

\* the popularity bands (min_popularity, max_popularity) of a call
Bands == { [min |-> 15, max |-> 40],
           [min |-> 30, max |-> 30] }

\* the legacy engine has max_popularity only, and its caller leaves it at 20
LegacyBands == { [min |-> 0, max |-> 20] }

\* the names the suggestion source may return
SuggestedNames == { <<" ", "e", "v", "e">>, <<"B", "O", "B", " ">>, <<"b", " ">> }

\* the seed of a top-level call
TopSeeds == {1, 3}

\* the genre tags of a seed
GenreLists == { <<>>, <<"g1">>, <<"g1", "g2", "g3">> }

SeqsUpTo(S, n) == UNION { [1..k -> S] : k \in 0..n }

\* the items of one catalog reply
HitLists == SeqsUpTo(ArtistIds, MaxHits)

\* what the suggestion source hands the engine
NameLists == SeqsUpTo(SuggestedNames, MaxNames)

\* the access_token values a caller may pass: None, '', ' ', 0, 7 and a token
Tokens ==
    { [type |-> "NoneType", text |-> <<>>],
      [type |-> "str", text |-> <<>>],
      [type |-> "str", text |-> <<" ">>],
      [type |-> "int", text |-> <<"0">>],
      [type |-> "int", text |-> <<"7">>],
      [type |-> "str", text |-> <<"t", "k">>] }

ValidToken == [type |-> "str", text |-> <<"t", "k">>]

\* a failed request: the message has 401/Unauthorized in it, or not
Errors == {"auth", "other"}

InBand(a, band) == band.min <= Popularity(a) /\ Popularity(a) <= band.max

(***************************************************************************)
(* list.sort(key=popularity): stable, ascending.                           *)
(***************************************************************************)
RECURSIVE InsertByPopularity(_, _)
InsertByPopularity(sorted, a) ==
    IF sorted = <<>> THEN <<a>>
    ELSE IF Popularity(sorted[Len(sorted)]) <= Popularity(a)
         THEN Append(sorted, a)
         ELSE Append(InsertByPopularity(SubSeq(sorted, 1, Len(sorted) - 1), a),
                     sorted[Len(sorted)])

\* SortByPopularity that leaves the list as it is
SortByPopularity_None(s) == s

RECURSIVE SortByPopularity(_)
SortByPopularity(s) ==
    IF s = <<>> THEN <<>>
    ELSE InsertByPopularity(SortByPopularity(SubSeq(s, 1, Len(s) - 1)), s[Len(s)])

\* s[:n] for n >= 0
Take(s, n) == SubSeq(s, 1, IF n < Len(s) THEN n ELSE Len(s))

Range(s) == { s[i] : i \in DOMAIN s }

(***************************************************************************)
(* Candidate Matcher (_search_spotify_for_artists).                        *)
(***************************************************************************)
\* not skipped by `if not artist_name or len(artist_name.strip()) < 2`
Searchable(artist_name) == artist_name # <<>> /\ Len(strip(artist_name)) >= 2

\* the name test of one catalog hit
is_match(artist_name, spotify_name) ==
    LET artist_name_lower == lower(artist_name)
        spotify_name_lower == lower(spotify_name)
    IN  \/ artist_name_lower = spotify_name_lower
        \/ IsSubstring(artist_name_lower, spotify_name_lower)
        \/ IsSubstring(spotify_name_lower, artist_name_lower)

\* is_match of every name the Matcher may be given, stripped, with every
\* artist's name
NameMatches ==
    [n \in SuggestedNames |-> { a \in ArtistIds : is_match(strip(n), Name(a)) }]

\* AcceptHit without the popularity test
AcceptHit_NoBand(a, artist_name, seed_artist_id, seen_ids, band) ==
    /\ a # seed_artist_id
    /\ a \notin seen_ids
    /\ a \in NameMatches[artist_name]

\* AcceptHit that keeps the floor of the band and drops its ceiling
AcceptHit_NoCeiling(a, artist_name, seed_artist_id, seen_ids, band) ==
    /\ a # seed_artist_id
    /\ a \notin seen_ids
    /\ a \in NameMatches[artist_name]
    /\ Popularity(a) >= band.min

\* a hit is appended to found_artists; artist_name is the name as suggested,
\* matched after `artist_name = artist_name.strip()`
AcceptHit(a, artist_name, seed_artist_id, seen_ids, band) ==
    /\ a # seed_artist_id
    /\ a \notin seen_ids
    /\ a \in NameMatches[artist_name]
    /\ InBand(a, band)

\* ScanHits that leaves the loop at the first item it accepts
RECURSIVE ScanHits_FirstOnly(_, _, _, _, _)
ScanHits_FirstOnly(hits, artist_name, seed_artist_id, band, m) ==
    IF hits = <<>> THEN m
    ELSE LET a == Head(hits)
         IN  IF AcceptHit(a, artist_name, seed_artist_id, m.seen, band)
             THEN [found |-> Append(m.found, a), seen |-> m.seen \cup {a},
                   matched |-> TRUE]
             ELSE ScanHits_FirstOnly(Tail(hits), artist_name, seed_artist_id,
                                     band, m)

\* the loop over the items of one reply; m = [found, seen, matched]
RECURSIVE ScanHits(_, _, _, _, _)
ScanHits(hits, artist_name, seed_artist_id, band, m) ==
    IF hits = <<>> THEN m
    ELSE LET a == Head(hits)
             m2 == IF AcceptHit(a, artist_name, seed_artist_id, m.seen, band)
                   THEN [found |-> Append(m.found, a),
                         seen |-> m.seen \cup {a},
                         matched |-> TRUE]
                   ELSE m
         IN  ScanHits(Tail(hits), artist_name, seed_artist_id, band, m2)

\* the three query variants tried for a name
search_queries == <<"exact", "bare", "suffix">>

\* the names still to be searched: `for artist_name in artist_names` passes
\* over (`continue`) every name that is not searchable
\* Searchable of every name the Matcher may be given
SearchableNames == { n \in SuggestedNames : Searchable(n) }

RECURSIVE NextSearchable(_)
NextSearchable(artist_names) ==
    IF artist_names = <<>> THEN <<>>
    ELSE IF Head(artist_names) \in SearchableNames THEN artist_names
         ELSE NextSearchable(Tail(artist_names))

\* the catalog's answers to one query in a run of the Matcher on its own: a
\* failure, no item, two items inside the band [15, 40], or an item above it
\* (artist 5, whom the name "BOB " matches) before one inside it
MatcherReplies ==
    { [ok |-> FALSE, items |-> <<>>] } \cup
    { [ok |-> TRUE, items |-> h] : h \in { <<>>, <<2, 3>>, <<5, 3>> } }

\* MatchName that gives the name up at its first failed query
RECURSIVE MatchName_StopOnFailure(_, _, _, _, _, _)
MatchName_StopOnFailure(artist_name, queries, seed_artist_id, bnd, reply, m) ==
    IF queries = <<>> \/ m.matched THEN m
    ELSE LET r == reply[Head(queries)]
         IN  IF ~r.ok THEN m
             ELSE MatchName_StopOnFailure(
                      artist_name, Tail(queries), seed_artist_id, bnd, reply,
                      ScanHits(r.items, artist_name, seed_artist_id, bnd, m))

\* `for query in search_queries:` for one name: a failed query is skipped, the
\* first query with an accepted item ends the loop; reply[query] is the
\* catalog's answer to the request made for this name with that query
RECURSIVE MatchName(_, _, _, _, _, _)
MatchName(artist_name, queries, seed_artist_id, bnd, reply, m) ==
    IF queries = <<>> \/ m.matched THEN m
    ELSE LET r == reply[Head(queries)]
             m2 == IF ~r.ok THEN m
                   ELSE ScanHits(r.items, artist_name, seed_artist_id, bnd, m)
         IN  MatchName(artist_name, Tail(queries), seed_artist_id, bnd, reply, m2)

\* _search_spotify_for_artists run to its end from position i of artist_names
\* on, its queries tried in the order of `queries`; reply[<<i, query>>] is the
\* catalog's answer to the request made for the name at position i with that
\* query, so that a name suggested twice may be answered differently
RECURSIVE MatchAll(_, _, _, _, _, _, _)
MatchAll(i, artist_names, queries, seed_artist_id, bnd, reply, m) ==
    IF i > Len(artist_names) THEN m.found
    ELSE LET n == artist_names[i]
             m2 == IF n \in SearchableNames
                   THEN MatchName(n, queries, seed_artist_id, bnd,
                                  [q \in Range(queries) |-> reply[<<i, q>>]],
                                  [m EXCEPT !.matched = FALSE])
                   ELSE m
         IN  MatchAll(i + 1, artist_names, queries, seed_artist_id, bnd, reply, m2)

\* the first position of artist_names from position i on whose name is not
\* passed over by the `continue` of line 171; Len(artist_names) + 1 when the
\* loop over the names has ended
RECURSIVE NextPosition(_, _)
NextPosition(artist_names, i) ==
    IF i > Len(artist_names) THEN i
    ELSE IF artist_names[i] \in SearchableNames THEN i
         ELSE NextPosition(artist_names, i + 1)

\* NextRequest that goes on to the next variant after an accepted item
NextRequest_AllVariants(artist_names, i, qi, matched) ==
    IF qi < Len(search_queries)
    THEN [i |-> i, qi |-> qi + 1]
    ELSE [i |-> NextPosition(artist_names, i + 1), qi |-> 1]

\* the request after the one for position i of artist_names with variant qi:
\* `if matched: break` and the end of search_queries leave the name, a failed
\* request (`continue`) or one with no accepted item goes on to the next variant
NextRequest(artist_names, i, qi, matched) ==
    IF ~matched /\ qi < Len(search_queries)
    THEN [i |-> i, qi |-> qi + 1]
    ELSE [i |-> NextPosition(artist_names, i + 1), qi |-> 1]

\* the calls of the Matcher on its own with the names ns: an answer for every
\* request the call can make, one for each searchable position and query
MatcherCalls(ns) ==
    { [pc |-> "call", artist_names |-> ns, reply |-> t, i |-> 0, qi |-> 0,
       found_artists |-> <<>>, seen_ids |-> {}, issued |-> <<>>] :
        t \in [ ({ i \in DOMAIN ns : ns[i] \in SearchableNames }
                    \X Range(search_queries))
                  -> MatcherReplies ] }

(***************************************************************************)
(* State.                                                                  *)
(***************************************************************************)
VARIABLES
    impl,           \* "latest" (functions/niche_logic.py) or "legacy" (niche_logic.py)
    band,           \* min_popularity, max_popularity of the top-level call
    pc,             \* position of the running invocation
    fr,             \* locals of the running invocation; artist_names are the
                    \* names the Matcher's loop has not finished yet
    stack,          \* suspended callers, outermost first
    result,         \* outcome of the top-level call
    nested,         \* depth argument of every nested invocation, in call order
    strategies,     \* strategies the top-level invocation entered, in order
    seedFetch,      \* outcome of the top-level seed fetch
    primary_count,  \* matches of the top-level primary strategy, -1 before it ends
    resolved,       \* popularity classes of the name-matched primary hits
    seed_offered,   \* the requests ("search", "genre") answered with the top-level
                    \* seed itself when the band and the name searched admit it
    last_err,       \* how the request of the step just taken failed, "none" if it did not
    access_token,   \* the catalog credential the call was given
    sink,           \* the progress_callback of the top-level call, "none" without one
    emitted,        \* the events handed to the sink, in order
    progress_queue, \* _recommend_niche_stream: events put and not yet taken
    sent,           \* _recommend_niche_stream: events yielded to the client, in order
    cpc,            \* _recommend_niche_stream: position of generate()
    wpc,            \* _recommend_niche_stream: position of the run_search thread
    search_complete,\* _recommend_niche_stream: the threading.Event
    niche_artists,  \* _recommend_niche_stream: what run_search stored
    error_occurred, \* _recommend_niche_stream: str(e) of run_search, "" for None
    top_artists,    \* recommend_niche_for_top_artists: the seeds, in order
    bi,             \* recommend_niche_for_top_artists: index of the seed in the loop
    niche_dict,     \* recommend_niche_for_top_artists: niche id -> original artist
    surfaced,       \* recommend_niche_for_top_artists: the seed and the list of
                    \* every engine call that returned, in call order
    bpc,            \* recommend_niche_for_top_artists: position
    matcher_run,    \* a call of _search_spotify_for_artists on its own: its
                    \* artist_names, the catalog's reply to each request, the
                    \* position and variant of the next request, found_artists
                    \* and seen_ids, and the requests made so far, in order
    adapter_run,    \* a call of _query_perplexity_for_related_artists on its
                    \* own: the key, the model tried, the response held, the
                    \* requests made and what it returned
    token_run       \* a call of get_valid_token_from_session: the session, the
                    \* session it started from, the clock, the refresh reply
                    \* and what it returned

\* the items of the catalog reply of a step
CatalogReplies == HitLists

\* the names the suggestion source hands the engine in a step
SuggestionReplies == NameLists

\* what a call of find_niche_cousins is given and never changes
callArgs == << access_token, sink >>

\* the state of _recommend_niche_stream outside the engine
streamRest == << sent, cpc, wpc, search_complete, niche_artists, error_occurred >>

streamVars == << progress_queue, streamRest >>

\* the state of recommend_niche_for_top_artists outside the engine
batchVars == << top_artists, bi, niche_dict, surfaced, bpc >>

\* the calls of a helper on its own
standalone == << matcher_run, adapter_run, token_run >>

\* what a step of the engine that calls no sink leaves alone
outside == << callArgs, emitted, streamVars, batchVars, standalone >>

vars == << impl, band, pc, fr, stack, result, nested, strategies, seedFetch,
           primary_count, resolved, seed_offered, last_err, outside >>

\* the locals at entry of find_niche_cousins (the legacy engine has no
\* min_popularity: its callers pass 0)
NewFrame(seed_artist_id, max_popularity, depth, min_length, min_popularity) ==
    [ seed_artist_id |-> seed_artist_id,
      max_popularity |-> max_popularity,
      depth |-> depth,
      min_length |-> min_length,
      min_popularity |-> min_popularity,
      artists |-> <<>>,
      potential_bridges |-> <<>>,
      seed_genres |-> <<>>,
      niche_finds |-> <<>>,
      seen_artist_ids |-> IF impl = "latest" THEN {seed_artist_id} ELSE {},
      artist_names |-> <<>>,
      qi |-> 0,
      found_artists |-> <<>>,
      seen_ids |-> {},
      gi |-> 0 ]

\* the locals once the Matcher has returned
IdleMatcher(f) ==
    [f EXCEPT !.artist_names = <<>>, !.qi = 0,
              !.found_artists = <<>>, !.seen_ids = {}]

\* min_popularity and max_popularity of the invocation with locals f
BandOf(f) == [min |-> f.min_popularity, max |-> f.max_popularity]

NoResult == [kind |-> "none", artists |-> <<>>, error |-> "none"]

\* no streaming response is being generated
StreamOff ==
    /\ progress_queue = <<>>
    /\ sent = <<>>
    /\ cpc = "off"
    /\ wpc = "off"
    /\ search_complete = FALSE
    /\ niche_artists = <<>>
    /\ error_occurred = ""

\* no batch is running
BatchOff ==
    /\ top_artists = <<>>
    /\ bi = 0
    /\ niche_dict = << >>
    /\ surfaced = << >>
    /\ bpc = "off"

\* no call of the Matcher on its own
MatcherOff ==
    matcher_run = [pc |-> "off", artist_names |-> <<>>, reply |-> <<>>,
                   i |-> 0, qi |-> 0, found_artists |-> <<>>, seen_ids |-> {},
                   issued |-> <<>>]

\* no call of the suggestion adapter on its own
AdapterOff ==
    adapter_run = [pc |-> "off", key |-> [type |-> "NoneType", text |-> <<>>],
                   importable |-> TRUE, mi |-> 0, response |-> 0,
                   body |-> [json |-> FALSE, choices |-> "absent",
                             lines |-> <<>>],
                   posts |-> <<>>,
                   returned |-> [kind |-> "none", names |-> <<>>]]

\* a session without the keys the login writes
NoSession == [access_token |-> "None", expires_at |-> 0, refresh_token |-> "None"]

\* no call of get_valid_token_from_session
TokenOff ==
    token_run = [pc |-> "off", session |-> NoSession, stored |-> NoSession,
                 now |-> 0, refresh |-> "none", returned |-> "None"]

\* seed_artist_id of the top-level call
TopSeed == IF stack = <<>> THEN fr.seed_artist_id ELSE stack[1].seed_artist_id

\* the ghosts of a top-level call before it starts
FreshCall ==
    /\ stack = <<>>
    /\ result = NoResult
    /\ nested = <<>>
    /\ strategies = <<>>
    /\ seedFetch = "none"
    /\ primary_count = -1
    /\ resolved = {}
    /\ seed_offered = {}
    /\ last_err = "none"
    /\ emitted = <<>>

\* where find_niche_cousins starts: the legacy engine has no credential test
EntryPc == IF impl = "latest" THEN "check_token" ELSE "related"

Init ==
    /\ impl \in {"latest", "legacy"}
    /\ band \in (IF impl = "latest" THEN Bands ELSE LegacyBands)
    /\ \E s \in TopSeeds, ml \in 1..MaxMinLength :
          fr = NewFrame(s, band.max, 0, ml, band.min)
    /\ pc = EntryPc
    /\ access_token \in (IF impl = "latest" THEN Tokens ELSE {ValidToken})
    /\ sink = "none"
    /\ FreshCall
    /\ StreamOff
    /\ BatchOff
    /\ MatcherOff
    /\ AdapterOff
    /\ TokenOff

(***************************************************************************)
(* Control of the latest engine.                                           *)
(***************************************************************************)
\* Propagates with the genre search outside its try/except
Propagates_Genre(site, err) == site \in {"seed", "genre"}

\* an exception raised at this site escapes the strategy's own try/except
Propagates(site, err) == site = "seed"

\* the outer handler re-raises instead of returning []
OuterReraises(err) == err = "auth"

\* `if len(niche_finds) < min_length and seed_genres:` (Strategy 3)
AfterFallbackPc(f) ==
    IF Len(f.niche_finds) < f.min_length /\ f.seed_genres # <<>>
    THEN "genre" ELSE "finish"

\* AfterPrimaryPc that enters the fallback whatever was found
AfterPrimaryPc_AlwaysFallback(f) == "tracks"

\* AfterPrimaryPc that goes straight to the genre test
AfterPrimaryPc_SkipFallback(f) == AfterFallbackPc(f)

\* `if len(niche_finds) < min_length:` (Strategy 2)
AfterPrimaryPc(f) ==
    IF Len(f.niche_finds) < f.min_length THEN "tracks" ELSE AfterFallbackPc(f)

\* `for genre in seed_genres[:2]` starts at the first tag
AtPosition(f, p) == [f EXCEPT !.gi = IF p = "genre" THEN 1 ELSE 0]

\* the invocation goes on at position p with locals f
Continue(f, p) ==
    /\ fr' = AtPosition(f, p)
    /\ pc' = p
    /\ UNCHANGED << stack, result, nested >>

\* MergeUnseen without the seen test
MergeUnseen_NoCheck(f, artists) ==
    [f EXCEPT !.seen_artist_ids = @ \cup Range(artists),
              !.niche_finds = @ \o artists]

\* deeper_finds merged into the caller's niche_finds, skipping seen identifiers
RECURSIVE MergeUnseen(_, _)
MergeUnseen(f, artists) ==
    IF artists = <<>> THEN f
    ELSE LET a == Head(artists)
         IN  IF a \notin f.seen_artist_ids
             THEN MergeUnseen([f EXCEPT !.seen_artist_ids = @ \cup {a},
                                        !.niche_finds = Append(@, a)],
                              Tail(artists))
             ELSE MergeUnseen(f, Tail(artists))

\* the invocation returns the list val
ReturnToCaller(val) ==
    IF stack = <<>>
    THEN /\ result' = [kind |-> "list", artists |-> val, error |-> "none"]
         /\ pc' = "done"
         /\ fr' = IdleMatcher(fr)
         /\ UNCHANGED << stack, nested >>
    ELSE LET caller == MergeUnseen(stack[Len(stack)], val)
         IN  /\ stack' = SubSeq(stack, 1, Len(stack) - 1)
             /\ fr' = AtPosition(caller, AfterPrimaryPc(caller))
             /\ pc' = AfterPrimaryPc(caller)
             /\ UNCHANGED << result, nested >>

\* the invocation raises; a caller's `except Exception: pass` swallows it
RaiseToCaller(err) ==
    IF stack = <<>>
    THEN /\ result' = [kind |-> "raise", artists |-> <<>>, error |-> err]
         /\ pc' = "done"
         /\ fr' = IdleMatcher(fr)
         /\ UNCHANGED << stack, nested >>
    ELSE LET caller == stack[Len(stack)]
         IN  /\ stack' = SubSeq(stack, 1, Len(stack) - 1)
             /\ fr' = AtPosition(caller, AfterPrimaryPc(caller))
             /\ pc' = AfterPrimaryPc(caller)
             /\ UNCHANGED << result, nested >>

\* the outer `except Exception` of find_niche_cousins
OuterExcept(err) ==
    IF OuterReraises(err) THEN RaiseToCaller(err) ELSE ReturnToCaller(<<>>)

\* Call that hands the callee the caller's whole min_length
Call_FullTarget(f, seed_artist_id, max_popularity, depth, min_length, min_popularity) ==
    /\ stack' = Append(stack, f)
    /\ fr' = NewFrame(seed_artist_id, max_popularity, depth, f.min_length,
                     min_popularity)
    /\ pc' = EntryPc
    /\ nested' = Append(nested, depth)
    /\ UNCHANGED result

\* find_niche_cousins(bridge, token, max, depth + 1, min_length - len, min)
Call(f, seed_artist_id, max_popularity, depth, min_length, min_popularity) ==
    /\ stack' = Append(stack, f)
    /\ fr' = NewFrame(seed_artist_id, max_popularity, depth, min_length,
                     min_popularity)
    /\ pc' = EntryPc
    /\ nested' = Append(nested, depth)
    /\ UNCHANGED result

\* the request of this step failed at the site / was answered
NoteFault(err) == last_err' = err

NoFault == last_err' = "none"

(***************************************************************************)
(* The latest engine (functions/niche_logic.py, find_niche_cousins).       *)
(***************************************************************************)
\* bool(access_token): None, '' and 0 are false
Truthy(token) ==
    CASE token.type = "NoneType" -> FALSE
      [] token.type = "str" -> token.text # <<>>
      [] OTHER -> token.text # <<"0">>

\* TokenRejected without the whitespace test
TokenRejected_NoStrip(token) == ~Truthy(token) \/ token.type # "str"

\* `if not access_token:` and
\* `if not isinstance(access_token, str) or len(access_token.strip()) == 0:`
TokenRejected(token) ==
    \/ ~Truthy(token)
    \/ token.type # "str"
    \/ Len(strip(token.text)) = 0

\* the credential test at the head of find_niche_cousins, outside its try
CheckToken ==
    /\ impl = "latest"
    /\ pc = "check_token"
    /\ IF TokenRejected(access_token)
       THEN RaiseToCaller("config")
       ELSE Continue(fr, "fetch_seed")
    /\ NoFault
    /\ UNCHANGED << outside, impl, band, strategies, seedFetch, primary_count, resolved,
                    seed_offered >>

\* seed_artist = sp.artist(seed_artist_id)
FetchSeed ==
    /\ impl = "latest"
    /\ pc = "fetch_seed"
    /\ \/ \E g \in GenreLists :
            /\ Continue([fr EXCEPT !.seed_genres = g], "suggest1")
            /\ seedFetch' = IF fr.depth = 0 THEN "ok" ELSE seedFetch
            /\ NoFault
       \/ \E err \in Errors :
            /\ IF Propagates("seed", err)
               THEN OuterExcept(err)
               ELSE Continue(fr, "suggest1")
            /\ seedFetch' = IF fr.depth = 0 THEN err ELSE seedFetch
            /\ NoteFault(err)
    /\ UNCHANGED << outside, impl, band, strategies, primary_count, resolved,
                    seed_offered >>

\* the separation of found_artists into niche finds and potential bridges
RECURSIVE Partition(_, _, _)
Partition(found_artists, bnd, p) ==
    IF found_artists = <<>> THEN p
    ELSE LET a == Head(found_artists)
             rest == Tail(found_artists)
         IN  IF a \in p.seen THEN Partition(rest, bnd, p)
             ELSE IF InBand(a, bnd)
             THEN Partition(rest, bnd, [p EXCEPT !.seen = @ \cup {a},
                                               !.niche = Append(@, a)])
             ELSE IF Popularity(a) > bnd.max
             THEN Partition(rest, bnd, [p EXCEPT !.seen = @ \cup {a},
                                               !.bridges = Append(@, a)])
             ELSE Partition(rest, bnd, [p EXCEPT !.seen = @ \cup {a}])

\* `if len(niche_finds) < min_length and depth < 2 and potential_bridges:`
ShouldRecurse(niche_finds, depth, min_length, potential_bridges) ==
    /\ Len(niche_finds) < min_length
    /\ depth < MaxDepth
    /\ potential_bridges # <<>>

\* `for artist in found_artists:` (323-335): the locals once the loop has ended
PartitionStep(f, found_artists) ==
    LET p == Partition(found_artists, BandOf(f),
                       [niche |-> <<>>, bridges |-> <<>>,
                        seen |-> f.seen_artist_ids])
    IN  [IdleMatcher(f) EXCEPT !.niche_finds = @ \o p.niche,
                               !.seen_artist_ids = p.seen,
                               !.potential_bridges = p.bridges]

\* the recursive step (345-373) of the invocation with locals f1, or its way on
AfterPartition(f1) ==
    IF ShouldRecurse(f1.niche_finds, f1.depth, f1.min_length, f1.potential_bridges)
    THEN Call([f1 EXCEPT !.potential_bridges = SortByPopularity(@)],
              SortByPopularity(f1.potential_bridges)[1], f1.max_popularity,
              f1.depth + 1, f1.min_length - Len(f1.niche_finds),
              f1.min_popularity)
    ELSE Continue(f1, AfterPrimaryPc(f1))

\* `if progress_callback:`; the nested call at 355-362 passes no callback
HasSink(f) == sink # "none" /\ f.depth = 0

\* the primary Matcher returned found_artists
PrimaryDone(found_artists) ==
    /\ IF found_artists = <<>>
       THEN Continue(IdleMatcher(fr), AfterPrimaryPc(fr))
       ELSE IF HasSink(fr)
       THEN Continue([IdleMatcher(fr) EXCEPT !.found_artists = found_artists],
                     "notify_searching")
       ELSE AfterPartition(PartitionStep(fr, found_artists))
    /\ primary_count' = IF fr.depth = 0 THEN Len(found_artists)
                        ELSE primary_count

\* an event: its type, the niche counts of an artists_found event (count of the
\* batch, running total), the artists of a complete event
Event(type, count, total, artists) ==
    [type |-> type, count |-> count, total |-> total, artists |-> artists]

\* progress_callback(event_type, data) returns: the stream's sink puts the event
\* on its queue
Emit(e) ==
    /\ emitted' = Append(emitted, e)
    /\ progress_queue' = IF sink = "queue" THEN Append(progress_queue, e)
                         ELSE progress_queue

\* progress_callback("searching_spotify", ...) at 313-317, then the loop at 323-335
NotifySearching ==
    /\ impl = "latest"
    /\ pc = "notify_searching"
    /\ \/ /\ Emit(Event("searching_spotify", 0, 0, <<>>))
          /\ Continue(PartitionStep(fr, fr.found_artists), "notify_found")
          /\ NoFault
       \/ /\ sink = "faulty"
          /\ Continue(IdleMatcher(fr), AfterPrimaryPc(fr))
          /\ NoteFault("sink")
          /\ UNCHANGED << emitted, progress_queue >>
    /\ UNCHANGED << callArgs, streamRest, batchVars, standalone, impl, band,
                    strategies, seedFetch, primary_count, resolved,
                    seed_offered >>

\* progress_callback("artists_found", ...) at 336-341, then the recursive step
NotifyFound ==
    /\ impl = "latest"
    /\ pc = "notify_found"
    /\ \/ /\ Emit(Event("artists_found", Len(fr.niche_finds),
                     Len(fr.niche_finds), <<>>))
          /\ AfterPartition(fr)
          /\ NoFault
       \/ /\ sink = "faulty"
          /\ Continue(fr, AfterPrimaryPc(fr))
          /\ NoteFault("sink")
          /\ UNCHANGED << emitted, progress_queue >>
    /\ UNCHANGED << callArgs, streamRest, batchVars, standalone, impl, band,
                    strategies, seedFetch, primary_count, resolved,
                    seed_offered >>

\* the fallback Matcher returned found_artists
FallbackDone(found_artists) ==
    LET f1 == MergeUnseen(IdleMatcher(fr), found_artists)
    IN  /\ Continue(f1, AfterFallbackPc(f1))
        /\ UNCHANGED primary_count

\* the Matcher is entered with artist_names
StartMatcher(artist_names, phase) ==
    LET todo == NextSearchable(artist_names)
    IN  IF todo = <<>>
        THEN IF phase = "match1" THEN PrimaryDone(<<>>) ELSE FallbackDone(<<>>)
        ELSE /\ Continue([fr EXCEPT !.artist_names = todo, !.qi = 1,
                                    !.found_artists = <<>>, !.seen_ids = {}],
                         phase)
             /\ UNCHANGED primary_count

\* related_artist_data = _query_perplexity_for_related_artists(seed_name, seed_genres)
SuggestPrimary ==
    /\ impl = "latest"
    /\ pc = "suggest1"
    /\ \/ \E names \in SuggestionReplies :
            /\ IF names = <<>>
               THEN /\ Continue(fr, AfterPrimaryPc(fr))
                    /\ primary_count' = IF fr.depth = 0 THEN 0 ELSE primary_count
               ELSE StartMatcher(names, "match1")
            /\ NoFault
       \/ \E err \in Errors :
            /\ IF Propagates("suggest", err)
               THEN OuterExcept(err)
               ELSE Continue(fr, AfterPrimaryPc(fr))
            /\ primary_count' = IF fr.depth = 0 THEN 0 ELSE primary_count
            /\ NoteFault(err)
    /\ UNCHANGED << outside, impl, band, strategies, seedFetch, resolved,
                    seed_offered >>

PopularityClass(a, bnd) ==
    IF Popularity(a) > bnd.max THEN "above"
    ELSE IF Popularity(a) < bnd.min THEN "below" ELSE "in"

\* results = sp.search(q=query, type='artist', limit=10), and the scan of its items
SearchQuery ==
    /\ impl = "latest"
    /\ pc \in {"match1", "match2"}
    /\ LET artist_name == Head(fr.artist_names)
           m0 == [found |-> fr.found_artists, seen |-> fr.seen_ids,
                  matched |-> FALSE]
           After(m) ==
               LET next_name == m.matched \/ fr.qi = Len(search_queries)
                   todo == IF next_name
                           THEN NextSearchable(Tail(fr.artist_names))
                           ELSE fr.artist_names
                   qi2 == IF next_name THEN 1 ELSE fr.qi + 1
               IN  IF todo = <<>>
                   THEN IF pc = "match1" THEN PrimaryDone(m.found)
                                         ELSE FallbackDone(m.found)
                   ELSE /\ Continue([fr EXCEPT !.artist_names = todo, !.qi = qi2,
                                               !.found_artists = m.found,
                                               !.seen_ids = m.seen], pc)
                        /\ UNCHANGED primary_count
       IN  \/ \E hits \in CatalogReplies :
                /\ After(ScanHits(hits, artist_name, fr.seed_artist_id, BandOf(fr), m0))
                /\ resolved' =
                     IF pc = "match1"
                     THEN resolved \cup
                          { PopularityClass(hits[i], BandOf(fr)) :
                              i \in { j \in DOMAIN hits :
                                        /\ hits[j] # fr.seed_artist_id
                                        /\ hits[j] \in NameMatches[artist_name] } }
                     ELSE resolved
                /\ seed_offered' =
                     IF \E j \in DOMAIN hits :
                           /\ hits[j] = TopSeed
                           /\ hits[j] \in NameMatches[artist_name]
                           /\ InBand(hits[j], BandOf(fr))
                     THEN seed_offered \cup {"search"} ELSE seed_offered
                /\ NoFault
           \/ \E err \in Errors :
                /\ IF Propagates("search", err)
                   THEN OuterExcept(err) /\ UNCHANGED primary_count
                   ELSE After(m0)
                /\ NoteFault(err)
                /\ UNCHANGED << resolved, seed_offered >>
    /\ strategies' = IF fr.depth = 0 /\ pc = "match1" /\ "primary" \notin Range(strategies)
                     THEN Append(strategies, "primary") ELSE strategies
    /\ UNCHANGED << outside, impl, band, seedFetch >>

\* top_tracks = sp.artist_top_tracks(seed_artist_id, country='US')
TopTracks ==
    /\ impl = "latest"
    /\ pc = "tracks"
    /\ \/ /\ Continue(fr, "suggest2")
          /\ NoFault
       \/ \E err \in Errors :
            /\ IF Propagates("tracks", err)
               THEN OuterExcept(err)
               ELSE Continue(fr, AfterFallbackPc(fr))
            /\ NoteFault(err)
    /\ strategies' = IF fr.depth = 0 THEN Append(strategies, "fallback")
                     ELSE strategies
    /\ UNCHANGED << outside, impl, band, seedFetch, primary_count, resolved,
                    seed_offered >>

\* related_artist_data = _query_perplexity_for_related_artists(query_context, seed_genres)
SuggestFallback ==
    /\ impl = "latest"
    /\ pc = "suggest2"
    /\ \/ \E names \in SuggestionReplies :
            /\ IF names = <<>>
               THEN Continue(fr, AfterFallbackPc(fr)) /\ UNCHANGED primary_count
               ELSE StartMatcher(names, "match2")
            /\ NoFault
       \/ \E err \in Errors :
            /\ IF Propagates("suggest", err)
               THEN OuterExcept(err)
               ELSE Continue(fr, AfterFallbackPc(fr))
            /\ NoteFault(err)
            /\ UNCHANGED primary_count
    /\ UNCHANGED << outside, impl, band, strategies, seedFetch, resolved,
                    seed_offered >>

\* the genre reply's items in band, not the seed, not seen
GenreFilter(artists, f, bnd) ==
    SelectSeq(artists, LAMBDA a : /\ InBand(a, bnd)
                                  /\ a # f.seed_artist_id
                                  /\ a \notin f.seen_artist_ids)

\* a reply of the genre search (limit=50) longer than a name search's
WideReplies == { <<4, 3, 2>> }

\* the items of the reply to a genre search
GenreReplies == HitLists \cup WideReplies

\* GenreAppend without the break at 2 * min_length
RECURSIVE GenreAppend_NoCap(_, _)
GenreAppend_NoCap(f, filtered_artists) ==
    IF filtered_artists = <<>> THEN f
    ELSE LET a == Head(filtered_artists)
             f2 == IF a \notin f.seen_artist_ids
                   THEN [f EXCEPT !.seen_artist_ids = @ \cup {a},
                                  !.niche_finds = Append(@, a)]
                   ELSE f
         IN  GenreAppend_NoCap(f2, Tail(filtered_artists))

\* `for artist in filtered_artists:` with its break at 2 * min_length
RECURSIVE GenreAppend(_, _)
GenreAppend(f, filtered_artists) ==
    IF filtered_artists = <<>> THEN f
    ELSE LET a == Head(filtered_artists)
             f2 == IF a \notin f.seen_artist_ids
                   THEN [f EXCEPT !.seen_artist_ids = @ \cup {a},
                                  !.niche_finds = Append(@, a)]
                   ELSE f
         IN  IF Len(f2.niche_finds) >= f2.min_length * 2 THEN f2
             ELSE GenreAppend(f2, Tail(filtered_artists))

\* results = sp.search(q=f'genre:"{genre}"', type='artist', limit=50), one genre tag
GenreSearch ==
    /\ impl = "latest"
    /\ pc = "genre"
    /\ LET genres == Take(fr.seed_genres, GenreLimit)
           NextGenre(f) ==
               IF fr.gi < Len(genres)
               THEN /\ fr' = [f EXCEPT !.gi = fr.gi + 1]
                    /\ pc' = "genre"
                    /\ UNCHANGED << stack, result, nested >>
               ELSE Continue(f, "finish")
       IN  \/ \E hits \in GenreReplies :
              \E filtered_artists \in {GenreFilter(hits, fr, BandOf(fr))} :
                \E sorted \in {SortByPopularity(filtered_artists)} :
                  \E f2 \in {GenreAppend(fr, sorted)} :
                    /\ IF Len(f2.niche_finds) >= f2.min_length
                       THEN Continue(f2, "finish")
                       ELSE NextGenre(f2)
                    /\ seed_offered' =
                         IF \E j \in DOMAIN hits :
                               hits[j] = TopSeed /\ InBand(hits[j], BandOf(fr))
                         THEN seed_offered \cup {"genre"} ELSE seed_offered
                    /\ NoFault
           \/ \E err \in Errors :
                /\ IF Propagates("genre", err)
                   THEN OuterExcept(err)
                   ELSE NextGenre(fr)
                /\ NoteFault(err)
                /\ UNCHANGED seed_offered
    /\ strategies' = IF fr.depth = 0 /\ "genre" \notin Range(strategies)
                     THEN Append(strategies, "genre") ELSE strategies
    /\ UNCHANGED << outside, impl, band, seedFetch, primary_count, resolved >>

\* niche_finds.sort(key=popularity); return niche_finds[:min_length * 2]
Finish ==
    /\ impl = "latest"
    /\ pc = "finish"
    /\ ReturnToCaller(Take(SortByPopularity(fr.niche_finds), fr.min_length * 2))
    /\ NoFault
    /\ UNCHANGED << outside, impl, band, strategies, seedFetch, primary_count, resolved,
                    seed_offered >>

(***************************************************************************)
(* The legacy engine (niche_logic.py, find_niche_cousins).                 *)
(***************************************************************************)
\* LegacyShouldRecurse with the depth test off by one
LegacyShouldRecurse_Deeper(niche_finds, depth, min_length, potential_bridges) ==
    /\ Len(niche_finds) < min_length
    /\ depth <= MaxDepth
    /\ potential_bridges # <<>>

\* `if len(niche_finds) < min_length and depth < 2:` and `if potential_bridges:`
LegacyShouldRecurse(niche_finds, depth, min_length, potential_bridges) ==
    /\ Len(niche_finds) < min_length
    /\ depth < MaxDepth
    /\ potential_bridges # <<>>

\* every suspended caller extends its niche_finds with the returned list and returns
RECURSIVE LegacyUnwind(_, _)
LegacyUnwind(callers, val) ==
    IF callers = <<>> THEN val
    ELSE LegacyUnwind(SubSeq(callers, 1, Len(callers) - 1),
                      callers[Len(callers)].niche_finds \o val)

\* the legacy invocation returns val, and so does every caller in turn
LegacyReturn(val) ==
    /\ result' = [kind |-> "list", artists |-> LegacyUnwind(stack, val),
                  error |-> "none"]
    /\ pc' = "done"
    /\ stack' = <<>>
    /\ fr' = IF stack = <<>> THEN [fr EXCEPT !.niche_finds = val]
             ELSE [stack[1] EXCEPT !.niche_finds = LegacyUnwind(stack, val)]
    /\ UNCHANGED nested

\* related = sp.artist_related_artists(seed_artist_id), and the rest of the call
LegacyRelated ==
    /\ impl = "legacy"
    /\ pc = "related"
    /\ \/ \E artists \in CatalogReplies :
            LET niche_finds ==
                    SelectSeq(artists, LAMBDA a : Popularity(a) <= fr.max_popularity)
                potential_bridges ==
                    SelectSeq(artists, LAMBDA a : Popularity(a) > fr.max_popularity)
                bridge_artist == SortByPopularity(potential_bridges)[1]
            IN  /\ IF LegacyShouldRecurse(niche_finds, fr.depth, fr.min_length,
                                          potential_bridges)
                   THEN Call([fr EXCEPT !.artists = artists,
                                        !.niche_finds = niche_finds,
                                        !.potential_bridges =
                                            SortByPopularity(potential_bridges)],
                             bridge_artist, fr.max_popularity, fr.depth + 1,
                             fr.min_length - Len(niche_finds), 0)
                   ELSE LegacyReturn(niche_finds)
                /\ NoFault
       \/ \E err \in Errors :
            /\ LegacyReturn(<<>>)
            /\ NoteFault(err)
    /\ UNCHANGED << outside, impl, band, strategies, seedFetch, primary_count, resolved,
                    seed_offered >>

Next ==
    \/ CheckToken
    \/ FetchSeed
    \/ SuggestPrimary
    \/ SearchQuery
    \/ TopTracks
    \/ SuggestFallback
    \/ GenreSearch
    \/ Finish
    \/ LegacyRelated

Spec == Init /\ [][Next]_vars

(***************************************************************************)
(* find_niche_cousins called with a progress_callback.                     *)
(***************************************************************************)
\* a callback that returns, and one any call of which may raise
Sinks == {"ok", "faulty"}

SinkInit ==
    /\ impl = "latest"
    /\ band \in Bands
    /\ \E s \in TopSeeds, ml \in 1..MaxMinLength :
          fr = NewFrame(s, band.max, 0, ml, band.min)
    /\ pc = EntryPc
    /\ access_token = ValidToken
    /\ sink \in Sinks
    /\ FreshCall
    /\ StreamOff
    /\ BatchOff
    /\ MatcherOff
    /\ AdapterOff
    /\ TokenOff

SinkNext ==
    \/ CheckToken
    \/ FetchSeed
    \/ SuggestPrimary
    \/ SearchQuery
    \/ NotifySearching
    \/ NotifyFound
    \/ TopTracks
    \/ SuggestFallback
    \/ GenreSearch
    \/ Finish

SinkSpec == SinkInit /\ [][SinkNext]_vars

(***************************************************************************)
(* The streaming response (functions/main.py, _recommend_niche_stream):    *)
(* generate() and the run_search thread.                                   *)
(***************************************************************************)
\* min_length of find_niche_cousins when the caller gives none
DefaultMinLength == 5

\* what generate() leaves alone
streamFrame == << impl, band, pc, fr, stack, result, nested, strategies, seedFetch,
                 primary_count, resolved, seed_offered, last_err, callArgs, emitted, batchVars,
                 standalone >>

\* the first of every identifier of artists, in order
RECURSIVE Unique(_, _)
Unique(artists, seen_ids) ==
    IF artists = <<>> THEN <<>>
    ELSE IF Head(artists) \in seen_ids THEN Unique(Tail(artists), seen_ids)
    ELSE <<Head(artists)>> \o Unique(Tail(artists), seen_ids \cup {Head(artists)})

\* yield the start event
YieldStart ==
    /\ cpc = "start"
    /\ sent' = Append(sent, Event("start", 0, 0, <<>>))
    /\ cpc' = "spawn"
    /\ UNCHANGED << streamFrame, progress_queue, wpc, search_complete,
                    niche_artists, error_occurred >>

\* search_thread.start()
StartThread ==
    /\ cpc = "spawn"
    /\ cpc' = "test_set"
    /\ wpc' = "search"
    /\ pc' = EntryPc
    /\ UNCHANGED << impl, band, fr, stack, result, nested, strategies, seedFetch,
                    primary_count, resolved, seed_offered, last_err, callArgs, emitted,
                    batchVars, standalone, progress_queue, sent,
                    search_complete, niche_artists, error_occurred >>

\* run_search: find_niche_cousins returned or raised
RunSearchReturn ==
    /\ wpc = "search"
    /\ pc = "done"
    /\ wpc' = "finally"
    /\ IF result.kind = "list"
       THEN niche_artists' = result.artists /\ UNCHANGED error_occurred
       ELSE error_occurred' = result.error /\ UNCHANGED niche_artists
    /\ UNCHANGED << streamFrame, progress_queue, sent, cpc, search_complete >>

\* run_search: `finally: search_complete.set()`
SearchCompleteSet ==
    /\ wpc = "finally"
    /\ wpc' = "exited"
    /\ search_complete' = TRUE
    /\ UNCHANGED << streamFrame, progress_queue, sent, cpc, niche_artists,
                    error_occurred >>

\* LoopTest that leaves the loop as soon as the thread is done
LoopTest_IgnoreQueue(position, is_set, queue) ==
    IF position = "test_set" THEN (IF ~is_set THEN "get" ELSE "join")
    ELSE "join"

\* `while not search_complete.is_set() or not progress_queue.empty():` read one
\* operand at a time
LoopTest(position, is_set, queue) ==
    IF position = "test_set" THEN (IF ~is_set THEN "get" ELSE "test_empty")
    ELSE (IF queue # <<>> THEN "get" ELSE "join")

\* one operand of the loop condition
TestLoop ==
    /\ cpc \in {"test_set", "test_empty"}
    /\ cpc' = LoopTest(cpc, search_complete, progress_queue)
    /\ UNCHANGED << streamFrame, progress_queue, sent, wpc, search_complete,
                    niche_artists, error_occurred >>

\* GetTimesOut of a get() without timeout
GetTimesOut_Blocking(queue) == FALSE

\* progress_queue.get(timeout=0.1) raises queue.Empty
GetTimesOut(queue) == queue = <<>>

\* update = progress_queue.get(timeout=0.1) and the yield of it, or queue.Empty
GetUpdate ==
    /\ cpc = "get"
    /\ \/ /\ progress_queue # <<>>
          /\ sent' = Append(sent, Head(progress_queue))
          /\ progress_queue' = Tail(progress_queue)
       \/ /\ GetTimesOut(progress_queue)
          /\ UNCHANGED << sent, progress_queue >>
    /\ cpc' = "test_set"
    /\ UNCHANGED << streamFrame, wpc, search_complete, niche_artists,
                    error_occurred >>

\* Terminal that reports complete whatever run_search stored
Terminal_AlwaysComplete(message, artists) ==
    Event("complete", Len(Unique(artists, {})), 0, Unique(artists, {}))

\* `if error_occurred:` the error event, else the complete event with the
\* unique artists and their count
Terminal(message, artists) ==
    IF message # "" THEN Event("error", 0, 0, <<>>)
    ELSE Event("complete", Len(Unique(artists, {})), 0, Unique(artists, {}))

\* search_thread.join(timeout=1) and the terminal event
Report ==
    /\ cpc = "join"
    /\ sent' = Append(sent, Terminal(error_occurred, niche_artists))
    /\ cpc' = "done"
    /\ UNCHANGED << streamFrame, progress_queue, wpc, search_complete,
                    niche_artists, error_occurred >>

\* recommend_niche hands _recommend_niche_stream a non-blank string token
StreamInit ==
    /\ impl = "latest"
    /\ band = [min |-> 15, max |-> 40]
    /\ \E s \in TopSeeds : fr = NewFrame(s, band.max, 0, DefaultMinLength, band.min)
    /\ pc = "idle"
    /\ access_token = ValidToken
    /\ sink = "queue"
    /\ FreshCall
    /\ progress_queue = <<>>
    /\ sent = <<>>
    /\ cpc = "start"
    /\ wpc = "unstarted"
    /\ search_complete = FALSE
    /\ niche_artists = <<>>
    /\ error_occurred = ""
    /\ BatchOff
    /\ MatcherOff
    /\ AdapterOff
    /\ TokenOff

\* the steps of the run_search thread
Worker ==
    \/ CheckToken
    \/ FetchSeed
    \/ SuggestPrimary
    \/ SearchQuery
    \/ NotifySearching
    \/ NotifyFound
    \/ TopTracks
    \/ SuggestFallback
    \/ GenreSearch
    \/ Finish
    \/ RunSearchReturn
    \/ SearchCompleteSet

\* the steps of generate()
Consumer ==
    \/ YieldStart
    \/ StartThread
    \/ TestLoop
    \/ GetUpdate
    \/ Report

StreamNext == Worker \/ Consumer

StreamSpec == StreamInit /\ [][StreamNext]_vars

\* both threads keep being scheduled
StreamLiveSpec == StreamSpec /\ WF_vars(Worker) /\ WF_vars(Consumer)

(***************************************************************************)
(* The batch runner (recommend_niche_for_top_artists, both files).         *)
(***************************************************************************)
\* most top artists the catalog returns
MaxSeeds == 2

\* min_length the batch runner passes
BatchMinLength == 3

\* max_popularity the legacy batch runner passes
LegacyBatchMax == 20

\* the user's top artists
BatchSeeds == {1, 5}

\* max_popularity, min_popularity the batch runner may be called with; the
\* first is the default of the latest one
BatchBands ==
    IF impl = "latest"
    THEN { [min |-> 5, max |-> 20], [min |-> 15, max |-> 40] }
    ELSE { [min |-> 0, max |-> 20], [min |-> 0, max |-> 40] }

\* what the batch runner leaves alone between two engine calls
batchFrame == << impl, band, callArgs, streamVars, standalone >>

\* BatchArgs that passes a fixed band
BatchArgs_FixedBand(seed) ==
    NewFrame(seed, LegacyBatchMax, 0, BatchMinLength, 0)

\* the arguments of find_niche_cousins at 479 (latest) and 116 (legacy)
BatchArgs(seed) ==
    IF impl = "latest"
    THEN NewFrame(seed, band.max, 0, BatchMinLength, band.min)
    ELSE NewFrame(seed, LegacyBatchMax, 0, BatchMinLength, 0)

\* sp.current_user_top_artists(...).get('items', []), or the request raises
FetchTop ==
    /\ bpc = "fetch"
    /\ \/ \E items \in SeqsUpTo(BatchSeeds, MaxSeeds) :
             /\ top_artists' = items
             /\ bpc' = "loop"
       \/ /\ bpc' = "raised"
          /\ UNCHANGED top_artists
    /\ UNCHANGED << batchFrame, pc, fr, stack, result, nested, strategies,
                    seedFetch, primary_count, resolved, seed_offered, last_err, emitted,
                    bi, niche_dict, surfaced >>

\* `for artist in top_artists:` and the call of find_niche_cousins
BatchCall ==
    /\ bpc = "loop"
    /\ bi < Len(top_artists)
    /\ bi' = bi + 1
    /\ fr' = BatchArgs(top_artists[bi + 1])
    /\ pc' = EntryPc
    /\ bpc' = "running"
    /\ UNCHANGED << batchFrame, stack, result, nested, strategies, seedFetch,
                    primary_count, resolved, seed_offered, last_err, emitted, top_artists,
                    niche_dict, surfaced >>

\* Store that keeps the entry a niche id already has
Store_KeepFirst(mapping, niches, artist) ==
    [k \in DOMAIN mapping \cup Range(niches) |->
        IF k \in DOMAIN mapping THEN mapping[k]
        ELSE [niche_artist |-> k, original_artist |-> artist]]

\* `for niche in niches: niche_finds[niche['id']] = {...}`
Store(mapping, niches, artist) ==
    [k \in DOMAIN mapping \cup Range(niches) |->
        IF k \in Range(niches)
        THEN [niche_artist |-> k, original_artist |-> artist]
        ELSE mapping[k]]

\* BatchPcAfter of a loop that passes over a seed whose call raised
BatchPcAfter_NextSeed(r) == "loop"

\* where the batch runner is after the call at 479: the call is in no try, so
\* an exception of find_niche_cousins leaves the loop and the function
BatchPcAfter(r) == IF r.kind = "list" THEN "loop" ELSE "raised"

\* find_niche_cousins returned and its list is stored, or it raised and so
\* does the batch runner; the call and its locals are gone
BatchCollect ==
    /\ bpc = "running"
    /\ pc = "done"
    /\ IF result.kind = "list"
       THEN /\ niche_dict' = Store(niche_dict, result.artists, top_artists[bi])
            /\ surfaced' = Append(surfaced, [seed |-> top_artists[bi],
                                             niches |-> result.artists])
       ELSE UNCHANGED << niche_dict, surfaced >>
    /\ bpc' = BatchPcAfter(result)
    /\ pc' = "idle"
    /\ fr' = NewFrame(0, band.max, 0, BatchMinLength, band.min)
    /\ stack' = <<>>
    /\ result' = NoResult
    /\ nested' = <<>>
    /\ strategies' = <<>>
    /\ seedFetch' = "none"
    /\ primary_count' = -1
    /\ resolved' = {}
    /\ seed_offered' = {}
    /\ last_err' = "none"
    /\ emitted' = <<>>
    /\ UNCHANGED << batchFrame, top_artists, bi >>

\* `return niche_finds`
BatchReturn ==
    /\ bpc = "loop"
    /\ bi = Len(top_artists)
    /\ bpc' = "done"
    /\ UNCHANGED << batchFrame, pc, fr, stack, result, nested, strategies,
                    seedFetch, primary_count, resolved, seed_offered, last_err, emitted,
                    top_artists, bi, niche_dict, surfaced >>

BatchInit ==
    /\ impl \in {"latest", "legacy"}
    /\ band \in BatchBands
    /\ fr = NewFrame(0, band.max, 0, BatchMinLength, band.min)
    /\ pc = "idle"
    /\ access_token = ValidToken
    /\ sink = "none"
    /\ FreshCall
    /\ StreamOff
    /\ top_artists = <<>>
    /\ bi = 0
    /\ niche_dict = << >>
    /\ surfaced = << >>
    /\ bpc = "fetch"
    /\ MatcherOff
    /\ AdapterOff
    /\ TokenOff

BatchNext ==
    \/ FetchTop
    \/ BatchCall
    \/ BatchCollect
    \/ BatchReturn
    \/ CheckToken
    \/ FetchSeed
    \/ SuggestPrimary
    \/ SearchQuery
    \/ TopTracks
    \/ SuggestFallback
    \/ GenreSearch
    \/ Finish
    \/ LegacyRelated

BatchSpec == BatchInit /\ [][BatchNext]_vars

(***************************************************************************)
(* The Matcher on its own (_search_spotify_for_artists).                   *)
(***************************************************************************)
\* what a step of the Matcher on its own leaves alone
matcherFrame ==
    << impl, band, pc, fr, stack, result, nested, strategies, seedFetch,
       primary_count, resolved, seed_offered, last_err, callArgs, emitted, streamVars,
       batchVars, adapter_run, token_run >>

\* `found_artists = []`, `seen_ids = set()` and the loop over artist_names up to
\* its first request: names that are empty or shorter than two characters once
\* stripped are passed over, and with none left the call returns
MatcherEnter ==
    /\ matcher_run.pc = "call"
    /\ LET first == NextPosition(matcher_run.artist_names, 1)
       IN  matcher_run' =
              [matcher_run EXCEPT
                  !.pc = IF first > Len(matcher_run.artist_names)
                         THEN "returned" ELSE "search",
                  !.i = first,
                  !.qi = IF first > Len(matcher_run.artist_names) THEN 0 ELSE 1]
    /\ UNCHANGED matcherFrame

\* one `results = sp.search(q=query, type='artist', limit=10)`: the request for
\* the name at position i with variant qi is made and answered, the items of
\* the answer are scanned, a failure is caught by `except Exception`, and the
\* loops move to the next request or `return found_artists`
MatcherSearch ==
    /\ matcher_run.pc = "search"
    /\ LET i == matcher_run.i
           query == search_queries[matcher_run.qi]
           artist_name == matcher_run.artist_names[i]
           results == matcher_run.reply[<<i, query>>]
           m0 == [found |-> matcher_run.found_artists,
                  seen |-> matcher_run.seen_ids, matched |-> FALSE]
           m == IF results.ok
                THEN ScanHits(results.items, artist_name, fr.seed_artist_id,
                              BandOf(fr), m0)
                ELSE m0
           next == NextRequest(matcher_run.artist_names, i, matcher_run.qi,
                               m.matched)
           done == next.i > Len(matcher_run.artist_names)
       IN  matcher_run' =
              [matcher_run EXCEPT
                  !.pc = IF done THEN "returned" ELSE "search",
                  !.i = next.i,
                  !.qi = IF done THEN 0 ELSE next.qi,
                  !.found_artists = m.found,
                  !.seen_ids = m.seen,
                  !.issued = Append(@, [i |-> i, q |-> query])]
    /\ UNCHANGED matcherFrame

\* seed_artist_id of a run of the Matcher on its own: an artist no name
\* matches, and one that is in the band and matched by a name
MatcherSeeds == {1, 3}

MatcherInit ==
    /\ impl = "latest"
    /\ band = [min |-> 15, max |-> 40]
    /\ \E s \in MatcherSeeds : fr = NewFrame(s, band.max, 0, 1, band.min)
    /\ pc = "idle"
    /\ access_token = ValidToken
    /\ sink = "none"
    /\ FreshCall
    /\ StreamOff
    /\ BatchOff
    /\ \E ns \in NameLists : matcher_run \in MatcherCalls(ns)
    /\ AdapterOff
    /\ TokenOff

MatcherNext ==
    \/ MatcherEnter
    \/ MatcherSearch

MatcherSpec == MatcherInit /\ [][MatcherNext]_vars

(***************************************************************************)
(* The suggestion adapter on its own                                       *)
(* (_query_perplexity_for_related_artists).                                *)
(***************************************************************************)
\* most lines of the content of a reply
MaxLines == 2

\* artist_names[:30]
SuggestionLimit == 30

\* os.getenv('PERPLEXITY_API_KEY'): unset, '', ' ' and a key
Keys ==
    { [type |-> "NoneType", text |-> <<>>],
      [type |-> "str", text |-> <<>>],
      [type |-> "str", text |-> <<" ">>],
      [type |-> "str", text |-> <<"p", "k">>] }

\* model_names, in order
ModelNames ==
    << "sonar", "sonar-pro", "llama-3.1-sonar-large-128k-online",
       "llama-3.1-sonar-small-128k-online", "llama-3-sonar-large-32k-online",
       "llama-3-sonar-small-32k-online" >>

\* `response = None`
NoResponse == 0

\* requests.post(...) raises, or returns a response with a status; the body of
\* a 400 is JSON or not
PostOutcomes ==
    { [raised |-> e, status |-> NoResponse, json |-> FALSE]
        : e \in {"Timeout", "ConnectionError"} } \cup
    { [raised |-> "none", status |-> c, json |-> TRUE]
        : c \in {200, 204, 400, 401, 500} } \cup
    { [raised |-> "none", status |-> 400, json |-> FALSE] }

\* the lines a reply's content is made of
Lines == { "Eve", "1. Bob.", "Here are some artists:", "42." }

\* the body of a 200: not JSON, JSON without choices, with an empty choices
\* list, with a null content ("null"), with choices null ("none") or an empty
\* object ("dict"), or with content lines
Bodies ==
    { [json |-> j, choices |-> c, lines |-> <<>>]
        : j \in {FALSE}, c \in {"absent"} } \cup
    { [json |-> TRUE, choices |-> c, lines |-> <<>>]
        : c \in {"absent", "empty", "null", "none", "dict"} } \cup
    { [json |-> TRUE, choices |-> "content", lines |-> l]
        : l \in SeqsUpTo(Lines, MaxLines) }

\* lines 118-137 on one line: the name kept, "" for a line that is dropped
ParseLine(line) ==
    CASE line = "Eve" -> "Eve"
      [] line = "1. Bob." -> "Bob"
      [] line = "Here are some artists:" -> ""
      [] line = "42." -> ""

RECURSIVE ParseLines(_)
ParseLines(lines) ==
    IF lines = <<>> THEN <<>>
    ELSE IF ParseLine(Head(lines)) = "" THEN ParseLines(Tail(lines))
    ELSE <<ParseLine(Head(lines))>> \o ParseLines(Tail(lines))

\* s[:n]
Prefix(s, n) == SubSeq(s, 1, IF Len(s) < n THEN Len(s) ELSE n)

\* KeyMissing that tests for None only
KeyMissing_NoneOnly(key) == key.type = "NoneType"

\* `if not perplexity_api_key:`
KeyMissing(key) == ~Truthy(key)

\* `except ImportError:` and `except Exception as e:` at 143-148: what the call
\* does with an exception raised inside the try. exception is the __mro__ of
\* its class, the class first: the clauses catch a class that is or derives
\* from ImportError or Exception, and any other (BaseException,
\* KeyboardInterrupt, SystemExit, GeneratorExit, CancelledError, ...) passes
\* through
AdapterExcept(exception) ==
    IF \E k \in DOMAIN exception : exception[k] \in {"ImportError", "Exception"}
    THEN [kind |-> "list", names |-> <<>>]
    ELSE [kind |-> "raise", names |-> <<>>]

\* bool(response) of a requests.Response: response.ok
ResponseFalsy(status) == status = NoResponse \/ status >= 400

adapterFrame == << impl, band, pc, fr, stack, result, nested, strategies,
                  seedFetch, primary_count, resolved, seed_offered, last_err, callArgs,
                  emitted, streamVars, batchVars, matcher_run, token_run >>

AdapterReturn(value) ==
    adapter_run' = [adapter_run EXCEPT !.pc = "returned", !.returned = value]

\* `import requests`, the key test at 39-43
AdapterKey ==
    /\ adapter_run.pc = "key"
    /\ IF ~adapter_run.importable
       THEN AdapterReturn(AdapterExcept(<<"ImportError", "Exception", "BaseException">>))
       ELSE IF KeyMissing(adapter_run.key)
       THEN AdapterReturn([kind |-> "list", names |-> <<>>])
       ELSE adapter_run' = [adapter_run EXCEPT !.pc = "post", !.mi = 1]
    /\ UNCHANGED adapterFrame

\* one turn of `for model_name in model_names:` (66-104)
AdapterPost ==
    /\ adapter_run.pc = "post"
    /\ \E o \in PostOutcomes :
          LET posted == Append(adapter_run.posts,
                               [model |-> ModelNames[adapter_run.mi],
                                outcome |-> o])
              held == IF o.raised # "none" THEN adapter_run.response
                      ELSE o.status
              leave == o.raised = "none" /\ o.status # 400
              last == adapter_run.mi = Len(ModelNames)
          IN  adapter_run' =
                 [adapter_run EXCEPT
                     !.posts = posted,
                     !.response = held,
                     !.pc = IF leave \/ last THEN "after" ELSE "post",
                     !.mi = IF leave \/ last THEN @ ELSE @ + 1]
    /\ UNCHANGED adapterFrame

\* Parsed of a body: what lines 111-141 return or raise
Parsed(body) ==
    IF ~body.json
    THEN AdapterExcept(<<"JSONDecodeError", "ValueError", "Exception",
                         "BaseException">>)
    ELSE CASE body.choices = "empty" ->
                AdapterExcept(<<"IndexError", "LookupError", "Exception",
                                "BaseException">>)
           [] body.choices = "null" ->
                AdapterExcept(<<"AttributeError", "Exception", "BaseException">>)
           [] body.choices = "none" ->
                AdapterExcept(<<"TypeError", "Exception", "BaseException">>)
           [] body.choices = "dict" ->
                AdapterExcept(<<"KeyError", "LookupError", "Exception",
                                "BaseException">>)
           [] body.choices = "absent" -> [kind |-> "list", names |-> <<>>]
           [] OTHER -> [kind |-> "list",
                        names |-> Prefix(ParseLines(body.lines), SuggestionLimit)]

\* `if not response or response.status_code != 200: return []`, else the
\* parsing of the body
AdapterParse ==
    /\ adapter_run.pc = "after"
    /\ IF ResponseFalsy(adapter_run.response) \/ adapter_run.response # 200
       THEN AdapterReturn([kind |-> "list", names |-> <<>>])
       ELSE \E body \in Bodies :
               adapter_run' = [adapter_run EXCEPT !.pc = "returned",
                                                  !.body = body,
                                                  !.returned = Parsed(body)]
    /\ UNCHANGED adapterFrame

AdapterInit ==
    /\ impl = "latest"
    /\ band = [min |-> 15, max |-> 40]
    /\ \E s \in TopSeeds : fr = NewFrame(s, band.max, 0, 1, band.min)
    /\ pc = "idle"
    /\ access_token = ValidToken
    /\ sink = "none"
    /\ FreshCall
    /\ StreamOff
    /\ BatchOff
    /\ MatcherOff
    /\ TokenOff
    /\ \E key \in Keys, importable \in BOOLEAN :
          adapter_run = [pc |-> "key", key |-> key, importable |-> importable,
                         mi |-> 0, response |-> NoResponse,
                         body |-> [json |-> FALSE, choices |-> "absent",
                                   lines |-> <<>>],
                         posts |-> <<>>,
                         returned |-> [kind |-> "none", names |-> <<>>]]

AdapterNext ==
    \/ AdapterKey
    \/ AdapterPost
    \/ AdapterParse

AdapterSpec == AdapterInit /\ [][AdapterNext]_vars

(***************************************************************************)
(* get_valid_token_from_session on its own (main.py).                      *)
(***************************************************************************)
\* `expires_at - 60`
ExpiryMargin == 60

\* session.get('access_token'): absent, empty, or the token the login stored
StoredTokens == {"None", "", "old"}

\* session.get('expires_at'): absent (0), or the expiry the login stored
StoredExpiries == {0, 200}

\* session.get('refresh_token'): absent, or the one the login stored
StoredRefresh == {"None", "rt"}

\* time.time() at the call: well before the margin, at it, just inside it, at
\* the expiry and after it
Clock == {100, 140, 141, 200, 300}

\* the lifetime of the token a refresh returns
TokenLifetime == 3600

\* sp_oauth.refresh_access_token(refresh_token) raises, or returns token_info
RefreshReplies == {"raise", "token_info"}

\* `expires_at and time.time() > (expires_at - 60)`
Expiring(expires_at, now) == expires_at # 0 /\ now > expires_at - ExpiryMargin

\* `not token`
TokenFalsy(token) == token \in {"None", ""}

tokenFrame == << impl, band, pc, fr, stack, result, nested, strategies,
                seedFetch, primary_count, resolved, seed_offered, last_err, callArgs,
                emitted, streamVars, batchVars, matcher_run, adapter_run >>

TokenReturn(value) ==
    token_run' = [token_run EXCEPT !.pc = "returned", !.returned = value]

\* the reads of the session, `if not token`, the expiry test and
\* `if refresh_token:`, up to the refresh request or the return
TokenCheck ==
    /\ token_run.pc = "call"
    /\ LET session == token_run.session
       IN  IF TokenFalsy(session.access_token)
           THEN TokenReturn("None")
           ELSE IF /\ Expiring(session.expires_at, token_run.now)
                   /\ session.refresh_token # "None"
                THEN token_run' = [token_run EXCEPT !.pc = "refresh"]
                ELSE TokenReturn(session.access_token)
    /\ UNCHANGED tokenFrame

\* token_info = sp_oauth.refresh_access_token(refresh_token), the two writes to
\* the session and the return; `except Exception` returns None
TokenRefresh ==
    /\ token_run.pc = "refresh"
    /\ \E reply \in RefreshReplies :
          IF reply = "raise"
          THEN token_run' = [token_run EXCEPT !.pc = "returned",
                                              !.refresh = "raised",
                                              !.returned = "None"]
          ELSE token_run' =
                 [token_run EXCEPT
                    !.pc = "returned",
                    !.refresh = "refreshed",
                    !.session.access_token = "new",
                    !.session.expires_at = token_run.now + TokenLifetime,
                    !.returned = "new"]
    /\ UNCHANGED tokenFrame

TokenInit ==
    /\ impl = "latest"
    /\ band = [min |-> 15, max |-> 40]
    /\ \E s \in TopSeeds : fr = NewFrame(s, band.max, 0, 1, band.min)
    /\ pc = "idle"
    /\ access_token = ValidToken
    /\ sink = "none"
    /\ FreshCall
    /\ StreamOff
    /\ BatchOff
    /\ MatcherOff
    /\ AdapterOff
    /\ \E t \in StoredTokens, e \in StoredExpiries, r \in StoredRefresh,
          now \in Clock :
          LET session == [access_token |-> t, expires_at |-> e,
                          refresh_token |-> r]
          IN  token_run = [pc |-> "call", session |-> session,
                           stored |-> session, now |-> now,
                           refresh |-> "none", returned |-> "None"]

TokenNext ==
    \/ TokenCheck
    \/ TokenRefresh

TokenSpec == TokenInit /\ [][TokenNext]_vars

(***************************************************************************)
(* Properties.                                                             *)
(***************************************************************************)
Latest == impl = "latest"

Done == pc = "done"

NoDuplicates(s) == \A i, j \in DOMAIN s : s[i] = s[j] => i = j

IndexOf(s, a) == CHOOSE i \in DOMAIN s : s[i] = a

\* C1: every artist record the latest engine holds as a niche find or returns,
\* at any recursion level and from any strategy, has min_popularity <=
\* popularity <= max_popularity.
C1_PopularityInBand ==
    Latest =>
        /\ \A i \in DOMAIN result.artists : InBand(result.artists[i], band)
        /\ \A i \in DOMAIN fr.niche_finds : InBand(fr.niche_finds[i], band)
        /\ \A k \in DOMAIN stack :
              \A i \in DOMAIN stack[k].niche_finds :
                 InBand(stack[k].niche_finds[i], band)

\* a call ended whose list has finds of the primary and of the genre strategy,
\* after the catalog offered name-matched artists above and below the band
C1_Witness ==
    /\ Latest /\ Done
    /\ Len(result.artists) >= 2
    /\ primary_count >= 1
    /\ "genre" \in Range(strategies)
    /\ {"above", "below"} \subseteq resolved

\* C2: the list a top-level call of the latest engine returns has no artist
\* identifier twice and never has the seed identifier.
C2_NoDuplicateNoSeed ==
    (Latest /\ Done /\ result.kind = "list") =>
        /\ NoDuplicates(result.artists)
        /\ fr.seed_artist_id \notin Range(result.artists)

\* a call ended after the primary, fallback and genre strategies all ran and
\* returned several artists; its seed is inside the band, and both a name search
\* for a name that matches the seed and a genre search were answered with it
C2_Witness ==
    /\ Latest /\ Done /\ result.kind = "list"
    /\ strategies = <<"primary", "fallback", "genre">>
    /\ primary_count >= 1
    /\ InBand(fr.seed_artist_id, band)
    /\ seed_offered = {"search", "genre"}
    /\ Len(result.artists) >= 2

\* C3: in both engines the depth of the running invocation, of every suspended
\* caller and of every nested invocation made so far is at most 2.
C3_DepthCeiling ==
    /\ fr.depth <= 2
    /\ \A i \in DOMAIN nested : nested[i] <= 2
    /\ \A k \in DOMAIN stack : stack[k].depth <= 2

\* the legacy engine is running its second nested invocation
C3_Witness == impl = "legacy" /\ nested = <<1, 2>> /\ fr.depth = 2

\* C4: when the primary candidates of the latest engine resolve only to
\* above-band artists, a depth-0 call makes exactly two nested invocations, at
\* depth 1 and at depth 2.
C4_ExactlyTwoNested ==
    (Latest /\ Done /\ seedFetch = "ok" /\ resolved = {"above"})
        => nested = <<1, 2>>

\* C5: when the primary Matcher resolution of the latest engine has fewer than
\* min_length in-band artists and at least one above-band artist, the engine
\* recurses into a bridge.
C5_RecursesIntoBridge ==
    (Latest /\ Done /\ seedFetch = "ok" /\ "above" \in resolved
        /\ primary_count >= 0 /\ primary_count < fr.min_length)
        => Len(nested) >= 1

\* C6: the list a call of the latest engine returns is in non-decreasing
\* popularity order, has at most 2 * min_length records, and keeps the lowest
\* popularity records of the accumulated finds, ties in accumulation order.
C6_SortedAndCapped ==
    (Latest /\ Done /\ result.kind = "list") =>
        LET r == result.artists
            acc == fr.niche_finds
        IN  /\ \A i, j \in DOMAIN r : i < j => Popularity(r[i]) <= Popularity(r[j])
            /\ Len(r) <= 2 * fr.min_length
            /\ Len(r) = IF Len(acc) < 2 * fr.min_length THEN Len(acc)
                        ELSE 2 * fr.min_length
            /\ Range(r) \subseteq Range(acc)
            /\ \A i, j \in DOMAIN r :
                  (i < j /\ Popularity(r[i]) = Popularity(r[j]))
                      => IndexOf(acc, r[i]) < IndexOf(acc, r[j])
            /\ \A a \in Range(acc) \ Range(r) : \A b \in Range(r) :
                  /\ Popularity(b) <= Popularity(a)
                  /\ Popularity(b) = Popularity(a)
                        => IndexOf(acc, b) < IndexOf(acc, a)

\* a call ended that had accumulated more than 2 * min_length finds out of
\* order, and dropped one as popular as the last one it returned
C6_Witness ==
    /\ Latest /\ Done
    /\ Len(fr.niche_finds) > 2 * fr.min_length
    /\ result.artists[1] # fr.niche_finds[1]
    /\ \E a \in Range(fr.niche_finds) \ Range(result.artists) :
          Popularity(a) = Popularity(result.artists[Len(result.artists)])

\* C7: in the latest engine the genre strategy is entered only after the
\* fallback strategy; after a primary strategy with zero matches the fallback
\* strategy is entered before anything later; the returned list has no
\* identifier twice.
C7_FallbackBeforeGenre ==
    Latest =>
        /\ \A j \in DOMAIN strategies :
              strategies[j] = "genre" =>
                 \E i \in DOMAIN strategies : i < j /\ strategies[i] = "fallback"
        /\ (primary_count = 0 /\ fr.depth = 0
              /\ pc \in {"suggest2", "match2", "genre", "finish", "done"})
              => "fallback" \in Range(strategies)
        /\ Done => NoDuplicates(result.artists)

\* a call ended whose primary strategy matched nothing and whose fallback and
\* genre strategies both ran and found artists
C7_Witness ==
    /\ Latest /\ Done
    /\ primary_count = 0
    /\ {"fallback", "genre"} \subseteq Range(strategies)
    /\ Len(result.artists) >= 2

\* C8: whenever the seed fetch of a call of the latest engine fails, for any
\* reason, the call ends by raising; it never returns a list.
C8_AnySeedFailureRaises ==
    (Latest /\ Done /\ seedFetch \in Errors) => result.kind = "raise"

\* a step whose catalog request (seed fetch, Matcher search, top-track lookup or
\* genre search, at any recursion level) was rejected as unauthorized
Rejected401 == last_err' = "auth" /\ pc \notin {"suggest1", "suggest2"}

\* C9: a catalog request of a top-level call of the latest engine rejected as
\* unauthorized ends the call with an authorization error.
C9_UnauthorizedIsFatal ==
    [][(Latest /\ Rejected401) => (pc' = "done" /\ result'.kind = "raise")]_vars

\* the artists an invocation holds: its niche finds and its Matcher's finds
Held(f) == Range(f.niche_finds) \cup Range(f.found_artists)

C10_State ==
    (Latest /\ seedFetch = "ok") =>
        /\ result.kind # "raise"
        /\ Done =>
              /\ result.kind = "list"
              /\ Range(result.artists) \subseteq Range(fr.niche_finds)
              /\ Len(result.artists) =
                    IF Len(fr.niche_finds) < 2 * fr.min_length
                    THEN Len(fr.niche_finds) ELSE 2 * fr.min_length
              /\ Len(fr.niche_finds) < fr.min_length =>
                    /\ "fallback" \in Range(strategies)
                    /\ fr.seed_genres # <<>> => "genre" \in Range(strategies)

C10_Step ==
    (Latest /\ seedFetch = "ok" /\ last_err' # "none"
        /\ pc \in {"suggest1", "suggest2", "match1", "match2", "genre"}) =>
        /\ pc' # "done"
        /\ Held(fr') \subseteq Held(fr)
        /\ (pc \in {"match1", "match2"} /\ fr.qi < Len(search_queries)) =>
              pc' = pc /\ fr'.artist_names = fr.artist_names /\ fr'.qi = fr.qi + 1
        /\ (pc = "suggest1" /\ Len(fr.niche_finds) < fr.min_length) => pc' = "tracks"
        /\ pc = "suggest2" =>
              pc' = IF Len(fr.niche_finds) < fr.min_length /\ fr.seed_genres # <<>>
                    THEN "genre" ELSE "finish"
        /\ (pc = "genre" /\ fr.gi < GenreLimit /\ fr.gi < Len(fr.seed_genres)) =>
              pc' = "genre" /\ fr'.gi = fr.gi + 1

\* C10: after a successful seed fetch the latest engine never raises; a failed
\* suggestion request, search query or genre search adds no artist, the next
\* query, genre or strategy whose condition holds runs, and the call returns
\* the finds accumulated.
C10_FailuresContained == [](C10_State) /\ [][C10_Step]_vars

\* the first genre search has just failed and the call, holding the finds of
\* the earlier strategies, is about to search the second genre
C10_Witness ==
    /\ Latest
    /\ seedFetch = "ok"
    /\ last_err # "none"
    /\ pc = "genre" /\ fr.gi = 2
    /\ strategies = <<"primary", "fallback", "genre">>
    /\ fr.niche_finds # <<>>

\* a credential that is missing, empty, whitespace-only or not a string
BadCredential ==
    access_token.type # "str" \/ \A i \in DOMAIN access_token.text :
                                    access_token.text[i] = " "

C17_State ==
    (Latest /\ BadCredential) =>
        /\ seedFetch = "none" /\ strategies = <<>> /\ nested = <<>>
        /\ last_err = "none"
        /\ pc \in {"check_token", "done"}
        /\ Done => (result.kind = "raise" /\ result.error = "config")

C17_Step == (Latest /\ BadCredential /\ pc = "check_token") => pc' = "done"

\* C17: a call of the latest engine given a missing, empty, whitespace-only or
\* non-string credential raises a configuration error in its first step, with
\* no catalog or suggestion request made before and no second attempt.
C17_ConfigurationError == [](C17_State) /\ [][C17_Step]_vars

\* a call given a whitespace-only credential has ended with a configuration error
C17_Witness ==
    /\ Latest /\ Done
    /\ access_token = [type |-> "str", text |-> <<" ">>]
    /\ result.kind = "raise" /\ result.error = "config"

\* the invocations in progress, outermost first
Invocations == Append(stack, fr)

\* the bridges of the invocation with locals f, in discovery order (the latest
\* engine keeps them in potential_bridges, the legacy engine derives them from
\* the related artists)
BridgesOf(f) ==
    IF impl = "legacy"
    THEN SelectSeq(f.artists, LAMBDA a : Popularity(a) > f.max_popularity)
    ELSE f.potential_bridges

\* a is the first bridge of minimal popularity in bridges
FirstLeastPopular(a, bridges) ==
    \E i \in DOMAIN bridges :
        /\ bridges[i] = a
        /\ \A j \in DOMAIN bridges :
              /\ Popularity(a) <= Popularity(bridges[j])
              /\ j < i => Popularity(bridges[j]) > Popularity(a)

\* C19: in both engines every nested invocation was made by a caller that made
\* no other, its seed is the first bridge of minimal popularity of that caller,
\* its depth is the caller's plus one, its min_length is the caller's minus the
\* caller's niche count and at least 1, and its popularity band is the caller's.
C19_RecursionArguments ==
    /\ \A i \in DOMAIN nested : nested[i] = i
    /\ Len(stack) <= Len(nested)
    /\ \A k \in DOMAIN stack :
          LET caller == stack[k]
              callee == Invocations[k + 1]
          IN  /\ FirstLeastPopular(callee.seed_artist_id, BridgesOf(caller))
              /\ callee.depth = caller.depth + 1
              /\ callee.min_length = caller.min_length - Len(caller.niche_finds)
              /\ callee.min_length >= 1
              /\ callee.max_popularity = caller.max_popularity
              /\ callee.min_popularity = caller.min_popularity

\* the legacy engine recursed a second time, into the first of two distinct
\* bridges of equal popularity
C19_Witness ==
    /\ impl = "legacy" /\ Len(stack) = 2
    /\ LET b == BridgesOf(stack[2])
       IN  /\ Len(b) = 2
           /\ Popularity(b[1]) = Popularity(b[2])
           /\ b[1] # b[2]
           /\ fr.seed_artist_id = b[1]
    /\ LET b == BridgesOf(stack[1])
       IN  /\ Len(b) = 2
           /\ Popularity(b[1]) > Popularity(b[2])
           /\ fr.seed_artist_id # b[2]

\* the orders in which the three query variants can be tried
QueryOrders ==
    { o \in [1..3 -> Range(search_queries)] : Range(o) = Range(search_queries) }

\* what the Matcher call returns when its variants are tried in order o
FoundInOrder(o) ==
    MatchAll(1, matcher_run.artist_names, o, fr.seed_artist_id, BandOf(fr),
             matcher_run.reply, [found |-> <<>>, seen |-> {}, matched |-> FALSE])

\* the positions of artist_names the Matcher makes requests for
SearchedPositions ==
    { i \in DOMAIN matcher_run.artist_names :
        matcher_run.artist_names[i] \in SearchableNames }

\* the items of the reply to the request for position p with query q that the
\* Matcher can accept for the name, the seen set aside
Acceptable(p, q) ==
    LET r == matcher_run.reply[<<p, q>>].items
    IN  { r[i] : i \in { j \in DOMAIN r :
                            AcceptHit(r[j], matcher_run.artist_names[p],
                                      fr.seed_artist_id, {}, BandOf(fr)) } }

\* for every name, the answered variants offer the same acceptable items
VariantsAgree ==
    \A p \in SearchedPositions :
        \A q1, q2 \in Range(search_queries) :
            (matcher_run.reply[<<p, q1>>].ok /\ matcher_run.reply[<<p, q2>>].ok)
              => Acceptable(p, q1) = Acceptable(p, q2)

\* C20 as stated: the set the Matcher returned is the set it returns for every
\* order of the three query variants.
C20_AnyVariantOrder ==
    matcher_run.pc = "returned" =>
        \A o \in QueryOrders :
            Range(FoundInOrder(o)) = Range(matcher_run.found_artists)

\* C20: when, for every candidate name, the variants the catalog answers offer
\* the same acceptable items, the set the Matcher returned is the set it returns
\* for every order of the three query variants.
C20_AgreeingVariants ==
    (matcher_run.pc = "returned" /\ VariantsAgree) =>
        \A o \in QueryOrders :
            Range(FoundInOrder(o)) = Range(matcher_run.found_artists)

\* a request for position p with query q is answered with an artist that is not
\* the seed, whom the name matches, and whose popularity is outside the band
OfferedOutsideBand(p, q) ==
    LET r == matcher_run.reply[<<p, q>>]
    IN  /\ r.ok
        /\ \E j \in DOMAIN r.items :
              /\ r.items[j] # fr.seed_artist_id
              /\ is_match(strip(matcher_run.artist_names[p]), Name(r.items[j]))
              /\ ~(band.min <= Popularity(r.items[j])
                    /\ Popularity(r.items[j]) <= band.max)

\* a Matcher call returned two artists for a name whose first variant failed
\* and whose other variants were answered with the same items, and every
\* answered variant of another name offered only an artist above the band
C20_Witness ==
    /\ matcher_run.pc = "returned" /\ VariantsAgree
    /\ Len(matcher_run.found_artists) >= 2
    /\ \E p, p2 \in SearchedPositions :
          /\ ~matcher_run.reply[<<p, "exact">>].ok
          /\ matcher_run.reply[<<p, "bare">>].items = <<2, 3>>
          /\ matcher_run.reply[<<p, "suffix">>].items = <<2, 3>>
          /\ \A q \in Range(search_queries) : OfferedOutsideBand(p2, q)

\* C15: a step in which the latest engine calls its progress sink leaves the
\* call where a call without sink is after the same lines: with the finds of
\* the partition loop after the first notification, and at the recursive step's
\* outcome with its finds untouched after the second.
C15_SinkTransparent ==
    [][(Latest /\ pc = "notify_searching" =>
            /\ fr'.niche_finds = PartitionStep(fr, fr.found_artists).niche_finds
            /\ fr'.seen_artist_ids =
                  PartitionStep(fr, fr.found_artists).seen_artist_ids)
       /\ (Latest /\ pc = "notify_found" =>
            /\ fr'.niche_finds = fr.niche_finds
            /\ pc' = AfterPrimaryPc(fr))]_vars

\* the events of the response that are neither its start nor its terminal event
IsProgress(e) == e.type \notin {"start", "complete", "error"}

IsTerminal(e) == e.type \in {"complete", "error"}

\* artists names every identifier of source once, and nothing else
Deduplicated(artists, source) ==
    /\ Range(artists) = Range(source)
    /\ \A i, j \in 1..Len(artists) : artists[i] = artists[j] => i = j

C13_State ==
    /\ \A i \in 1..Len(sent) :
          /\ (sent[i].type = "start") = (i = 1)
          /\ IsTerminal(sent[i]) => (i = Len(sent) /\ cpc = "done")
    /\ cpc = "done" =>
          LET last == sent[Len(sent)]
          IN  /\ IsTerminal(last)
              /\ result.kind = "list" =>
                    /\ last.type = "complete"
                    /\ Deduplicated(last.artists, result.artists)
                    /\ last.count = Len(last.artists)
              /\ result.kind = "raise" => last.type = "error"

C13_Step == cpc = "done" => sent' = sent

\* C13: the events sent to the client begin with the one start event and end
\* with exactly one terminal event, which is the last event: complete with the
\* engine's list without repeated identifiers and its length as count when the
\* engine returned, error and no complete when it raised; once the terminal
\* event is sent, nothing more is sent.
C13_StreamShape == [](C13_State) /\ [][C13_Step]_vars

\* a response ended with a complete event that carries two artists, after the
\* start event and two progress events
C13_Witness ==
    /\ cpc = "done"
    /\ Len(sent) = 4
    /\ sent[Len(sent)].type = "complete"
    /\ sent[Len(sent)].count = 2

\* C14: at every point of every interleaving the progress events sent so far,
\* followed by the ones still queued, are the events the worker enqueued, in
\* that order; when the terminal event has been sent the queue is empty, so
\* every enqueued event was sent once, in order, before it.
C14_FifoDelivery ==
    /\ SelectSeq(sent, IsProgress) \o progress_queue = emitted
    /\ cpc = "done" =>
          /\ progress_queue = <<>>
          /\ IsTerminal(sent[Len(sent)])
          /\ SubSeq(sent, 2, Len(sent) - 1) = emitted

\* the worker has signalled completion with one of its two events sent and the
\* other still queued
C14_Witness ==
    /\ search_complete
    /\ Len(progress_queue) = 1
    /\ Len(SelectSeq(sent, IsProgress)) = 1

\* C18: every streaming response eventually sends its terminal event.
C18_TerminalSent ==
    <>(cpc = "done" /\ sent # <<>> /\ IsTerminal(sent[Len(sent)]))

\* the consumer polls the empty queue while the worker is still searching
C18_Witness ==
    /\ cpc = "get"
    /\ progress_queue = <<>>
    /\ ~search_complete
    /\ wpc = "search"

\* the niche ids of the lists the engine returned to the batch runner so far
Surfaced == UNION { Range(surfaced[i].niches) : i \in DOMAIN surfaced }

\* the last engine call whose list holds niche id k
LastCallWith(k) ==
    CHOOSE i \in DOMAIN surfaced :
        /\ k \in Range(surfaced[i].niches)
        /\ \A j \in DOMAIN surfaced :
              k \in Range(surfaced[j].niches) => j <= i

\* C11: the batch runner's mapping has one entry for every niche identifier
\* an engine call returned, and no other, keyed by that identifier, and the
\* entry's original_artist is the seed of the last call that returned it.
C11_OneEntryPerNiche ==
    bpc \in {"loop", "running", "done"} =>
        /\ DOMAIN niche_dict = Surfaced
        /\ \A k \in Surfaced :
              /\ niche_dict[k].niche_artist = k
              /\ niche_dict[k].original_artist = surfaced[LastCallWith(k)].seed

\* the batch returned after two different seeds surfaced the same niche id,
\* the first of them another one as well
C11_Witness ==
    /\ bpc = "done"
    /\ Len(surfaced) = 2
    /\ surfaced[1].seed # surfaced[2].seed
    /\ \E k \in Range(surfaced[1].niches) \cap Range(surfaced[2].niches) :
          niche_dict[k].original_artist = surfaced[2].seed
    /\ \E k \in Range(surfaced[1].niches) \ Range(surfaced[2].niches) :
          niche_dict[k].original_artist = surfaced[1].seed

\* the invocation the batch runner made: the outermost one
BatchInvocation == IF stack = <<>> THEN fr ELSE stack[1]

\* C12: every engine invocation the batch runner makes has the max_popularity
\* (and, in the latest implementation, the min_popularity) the batch runner
\* was called with, depth 0 and min_length 3.
C12_BatchBand ==
    bpc = "running" =>
        /\ BatchInvocation.max_popularity = band.max
        /\ Latest => BatchInvocation.min_popularity = band.min
        /\ BatchInvocation.depth = 0
        /\ BatchInvocation.min_length = 3

\* C16: a call of the adapter with no key configured (the variable unset or
\* empty) returns the empty sequence and makes no request; and whatever the
\* service does (a timeout, a connection error, any status, any body), a call
\* that ends returns a sequence and does not raise.
C16_AdapterNeverRaises ==
    /\ adapter_run.returned.kind # "raise"
    /\ adapter_run.pc = "returned" => adapter_run.returned.kind = "list"
    /\ (adapter_run.pc # "off" /\ adapter_run.key.text = <<>>) =>
          /\ adapter_run.posts = <<>>
          /\ adapter_run.pc = "returned" => adapter_run.returned.names = <<>>

\* a call with a key returned the empty sequence after every model was tried
\* and the last request timed out
C16_Witness ==
    /\ adapter_run.pc = "returned"
    /\ adapter_run.returned = [kind |-> "list", names |-> <<>>]
    /\ Len(adapter_run.posts) = Len(ModelNames)
    /\ adapter_run.posts[Len(ModelNames)].outcome.raised = "Timeout"

\* the request the adapter made last
LastPost == adapter_run.posts[Len(adapter_run.posts)]

\* C23: the adapter posts to the models in the order of model_names; it stops
\* posting without a 200 only when every model has been tried, so a model that
\* answers 200 after failures of all earlier ones (an exception, a 400 or any
\* other status) is reached; and it returns the names parsed from the 200.
C23_FirstSuccessUsed ==
    /\ \A i \in 1..Len(adapter_run.posts) :
          adapter_run.posts[i].model = ModelNames[i]
    /\ (adapter_run.pc \in {"after", "returned"} /\ adapter_run.posts # <<>>) =>
          \/ LastPost.outcome.status = 200
          \/ Len(adapter_run.posts) = Len(ModelNames)
    /\ (adapter_run.pc = "returned" /\ adapter_run.posts # <<>>
          /\ LastPost.outcome.status = 200) =>
          adapter_run.returned = Parsed(adapter_run.body)

\* the variants requested for the name at position i among the requests
\* issued, in request order
VariantsIn(issued, i) ==
    LET mine == SelectSeq(issued, LAMBDA e : e.i = i)
    IN  [k \in 1..Len(mine) |-> mine[k].q]

\* the items of the answered requests of issued, in request order, each with
\* the name it was requested for
RECURSIVE ItemsOf(_)
ItemsOf(issued) ==
    IF issued = <<>> THEN <<>>
    ELSE LET n == matcher_run.artist_names[Head(issued).i]
             r == matcher_run.reply[<<Head(issued).i, Head(issued).q>>]
             here == IF r.ok
                     THEN [k \in DOMAIN r.items |-> [name |-> n, id |-> r.items[k]]]
                     ELSE <<>>
         IN  here \o ItemsOf(Tail(issued))

\* the hit h qualifies when kept is what is recorded so far
Qualifies(h, kept) ==
    /\ h.id # fr.seed_artist_id
    /\ h.id \notin Range(kept)
    /\ is_match(strip(h.name), Name(h.id))
    /\ band.min <= Popularity(h.id) /\ Popularity(h.id) <= band.max

\* the qualifying hits of items, in order
RECURSIVE Qualifying(_, _)
Qualifying(items, kept) ==
    IF items = <<>> THEN kept
    ELSE Qualifying(Tail(items),
                    IF Qualifies(Head(items), kept)
                    THEN Append(kept, Head(items).id) ELSE kept)

\* the request e is answered, and an item of the answer qualifies when the
\* requests of earlier have been made
AcceptsAfter(earlier, e) ==
    LET kept == Qualifying(ItemsOf(earlier), <<>>)
    IN  Len(Qualifying(ItemsOf(<<e>>), kept)) > Len(kept)

\* the n-th request of the run had an accepted item
Accepted(n) ==
    AcceptsAfter(SubSeq(matcher_run.issued, 1, n - 1), matcher_run.issued[n])

NoRequest == [i |-> 0, q |-> "none"]

\* the exact variant for the first name of trimmed length >= 2 from position
\* from on, if there is one
FirstRequestFrom(from) ==
    LET long == { j \in DOMAIN matcher_run.artist_names :
                    j >= from /\ Len(strip(matcher_run.artist_names[j])) >= 2 }
    IN  IF long = {} THEN NoRequest
        ELSE [i |-> CHOOSE j \in long : \A j2 \in long : j <= j2, q |-> "exact"]

\* the request C21 has the Matcher make next, the requests issued so far given
PrescribedRequest ==
    LET issued == matcher_run.issued
        variants == <<"exact", "bare", "suffix">>
    IN  IF issued = <<>> THEN FirstRequestFrom(1)
        ELSE LET last == issued[Len(issued)]
                 k == CHOOSE v \in 1..3 : variants[v] = last.q
             IN  IF k < 3 /\ ~Accepted(Len(issued))
                 THEN [i |-> last.i, q |-> variants[k + 1]]
                 ELSE FirstRequestFrom(last.i + 1)

C21_State ==
    /\ matcher_run.pc = "search" => PrescribedRequest # NoRequest
    /\ matcher_run.pc = "returned" => PrescribedRequest = NoRequest
    /\ matcher_run.pc \in {"call", "search", "returned"}

C21_Step ==
    (matcher_run.issued' # matcher_run.issued) =>
        matcher_run.issued' = Append(matcher_run.issued, PrescribedRequest)

\* C21: every request the Matcher makes is the next one of the fixed order: the
\* exact variant of the first name of trimmed length >= 2, then the bare and
\* the suffix variant of the same name as long as the variant before failed or
\* had no accepted item, then the exact variant of the next such name; the
\* Matcher goes on while a request is due and returns when none is, whatever
\* failed.
C21_VariantOrder == []C21_State /\ [][C21_Step]_vars

\* a run returned in which one name went through all three variants (the
\* first failed, the second had no accepted item, the third had one) and
\* another name stopped after its first
C21_Witness ==
    /\ matcher_run.pc = "returned"
    /\ \E a, b \in DOMAIN matcher_run.issued :
          LET i == matcher_run.issued[a].i
              j == matcher_run.issued[b].i
          IN  /\ VariantsIn(matcher_run.issued, i) = <<"exact", "bare", "suffix">>
              /\ matcher_run.issued[a].q = "suffix"
              /\ ~matcher_run.reply[<<i, "exact">>].ok
              /\ matcher_run.reply[<<i, "bare">>].ok
              /\ Accepted(a)
              /\ VariantsIn(matcher_run.issued, j) = <<"exact">>
              /\ Accepted(b)

\* C22: what the Matcher has recorded is, in discovery order and without a
\* repeated identifier, exactly the items of the requests it made that are not
\* the seed, not recorded already, name-matched and in the band: every such
\* item of a request, not only its first; so is the list it returns.
C22_ExactOutput ==
    /\ matcher_run.found_artists =
          Qualifying(ItemsOf(matcher_run.issued), <<>>)
    /\ \A i, j \in DOMAIN matcher_run.found_artists :
          matcher_run.found_artists[i] = matcher_run.found_artists[j] => i = j

\* a run returned two artists of one request, after a request that offered an
\* artist the name matches above the band and kept it out
C22_Witness ==
    /\ matcher_run.pc = "returned"
    /\ matcher_run.found_artists = <<2, 3>>
    /\ \E e, e2 \in Range(matcher_run.issued) :
          /\ matcher_run.reply[<<e.i, e.q>>].items = <<2, 3>>
          /\ OfferedOutsideBand(e2.i, e2.q)
          /\ e2.i < e.i

\* C24: a step of the fallback strategy in which the top-track lookup fails
\* takes the engine to its second suggestion request.
C24_FallbackWithoutTracks ==
    [][(Latest /\ pc = "tracks" /\ last_err' # "none") => pc' = "suggest2"]_vars

\* the positions of the primary strategy
PrimaryPcs == {"suggest1", "match1", "notify_searching", "notify_found"}

C25_State ==
    Latest =>
        /\ pc = "genre" => fr.seed_genres # <<>>
        /\ (Done /\ "genre" \in Range(strategies)) => fr.seed_genres # <<>>
        /\ (Done /\ primary_count >= fr.min_length) =>
              Range(strategies) \subseteq {"primary"}

C25_Step ==
    Latest =>
        /\ (pc \in PrimaryPcs /\ pc' \notin PrimaryPcs
              /\ stack = <<>> /\ stack' = <<>>
              /\ Len(fr'.niche_finds) >= fr'.min_length) =>
              pc' \in {"finish", "done"}
        /\ pc = "finish" => pc' = "done"
        /\ pc' = "genre" => fr'.seed_genres # <<>>

\* C25: when the latest engine leaves its primary strategy with at least
\* min_length niche finds, it goes to its return without a top-track lookup, a
\* second suggestion request or a genre search; and it is at a genre search
\* only when the seed has genre tags.
C25_EnoughAfterPrimary == [](C25_State) /\ [][C25_Step]_vars

\* a call of a seed with genre tags ended after the primary strategy alone,
\* which had found min_length artists
C25_Witness ==
    /\ Latest /\ Done
    /\ result.kind = "list"
    /\ primary_count >= fr.min_length
    /\ strategies = <<"primary">>
    /\ fr.seed_genres # <<>>

\* what a step appended to niche_finds
Appended == SubSeq(fr'.niche_finds, Len(fr.niche_finds) + 1, Len(fr'.niche_finds))

\* C26: every genre search of the latest engine is for the first or the second
\* genre tag, the second after the first, and is made only while the niche
\* count is below min_length; what it appends is in the band, not the seed,
\* not seen before, without repetition and in ascending popularity; and after
\* it the list is no longer than 2 * min_length.
C26_GenreLastResort ==
    [][(Latest /\ pc = "genre") =>
          /\ fr.gi \in 1..2 /\ fr.gi <= Len(fr.seed_genres)
          /\ Len(fr.niche_finds) < fr.min_length
          /\ pc' = "genre" =>
                (fr'.gi = fr.gi + 1 /\ Len(fr'.niche_finds) < fr.min_length)
          /\ SubSeq(fr'.niche_finds, 1, Len(fr.niche_finds)) = fr.niche_finds
          /\ \A i \in DOMAIN Appended :
                /\ fr.min_popularity <= Popularity(Appended[i])
                /\ Popularity(Appended[i]) <= fr.max_popularity
                /\ Appended[i] # fr.seed_artist_id
                /\ Appended[i] \notin fr.seen_artist_ids
                /\ \A j \in DOMAIN Appended :
                      /\ i < j => Popularity(Appended[i]) <= Popularity(Appended[j])
                      /\ Appended[i] = Appended[j] => i = j
          /\ Len(fr'.niche_finds) <= 2 * fr.min_length]_vars

\* the second genre search is about to be made, the first having left the
\* call one find short of a min_length of two
C26_Witness ==
    /\ Latest
    /\ pc = "genre"
    /\ fr.gi = 2
    /\ fr.min_length = 2
    /\ Len(fr.niche_finds) = 1
    /\ primary_count = 0


\* the program positions inside a Matcher batch of the engine
Matching == {"match1", "match2"}

\* C27: with a progress sink whose calls return, while the latest engine is
\* inside a Matcher batch (primary or fallback) the last event handed to the
\* sink is the one announcing that batch, and a batch that ends without a
\* failed request takes the call to the notifications that end in the
\* artists_found event with the running total.
C27_State ==
    (Latest /\ sink = "ok" /\ pc \in Matching) =>
        /\ emitted # <<>>
        /\ emitted[Len(emitted)].type = "searching_spotify"

C27_Step ==
    (Latest /\ sink = "ok" /\ pc \in Matching /\ pc' \notin Matching
            /\ last_err' = "none") =>
        pc' = "notify_searching"

C27_EventsAroundBatches == [](C27_State) /\ [][C27_Step]_vars


\* C28: a returned call of get_valid_token_from_session gave None when the
\* session held no access token and when the refresh request failed; when the
\* stored token was expired or inside the 60 second margin it gave None or the
\* refreshed token, with that token and its expiry written to the session, and
\* not the token the session started with.
C28_NeverStale ==
    token_run.pc = "returned" =>
        /\ TokenFalsy(token_run.stored.access_token) =>
              token_run.returned = "None"
        /\ token_run.refresh = "raised" => token_run.returned = "None"
        /\ ( /\ ~TokenFalsy(token_run.stored.access_token)
             /\ Expiring(token_run.stored.expires_at, token_run.now) ) =>
              \/ token_run.returned = "None"
              \/ /\ token_run.refresh = "refreshed"
                 /\ token_run.returned # token_run.stored.access_token
                 /\ token_run.session.access_token = token_run.returned
                 /\ token_run.session.expires_at =
                       token_run.now + TokenLifetime


\* the parts of C28 that hold: None without a stored token, None after a failed
\* refresh, and a refreshed token is the one written to the session
C28_Holds ==
    token_run.pc = "returned" =>
        /\ TokenFalsy(token_run.stored.access_token) =>
              token_run.returned = "None"
        /\ token_run.refresh = "raised" => token_run.returned = "None"
        /\ token_run.refresh = "refreshed" =>
              /\ token_run.returned = token_run.session.access_token
              /\ token_run.returned # token_run.stored.access_token


\* C29: in the latest engine the bridge list is empty in every state, no
\* invocation is nested in another and depth keeps the value the call was
\* given, whatever the band and the replies of the suggestion service and the
\* catalog.
C29_NoBridgesNoRecursion ==
    Latest =>
        /\ fr.potential_bridges = <<>>
        /\ stack = <<>>
        /\ nested = <<>>
        /\ fr.depth = 0

\* the primary Matcher was offered a name-matched artist above the band, found
\* too little to fill min_length, and the call returned
C29_Witness ==
    /\ Latest
    /\ Done
    /\ result.kind = "list"
    /\ "above" \in resolved
    /\ "primary" \in Range(strategies)
    /\ primary_count < fr.min_length


\* C30: the batch runner returns its mapping only when the engine call of every
\* top artist returned; an engine call that raised ends the batch runner in the
\* raised state, and from there nothing more happens: no further seed is
\* processed and the finds of the earlier seeds are returned to nobody.
C30_State == bpc = "done" => Len(surfaced) = Len(top_artists)

C30_Step ==
    /\ (bpc = "running" /\ pc = "done" /\ result.kind = "raise") =>
          bpc' = "raised"
    /\ bpc = "raised" => (bpc' = "raised" /\ bi' = bi /\ pc' = pc)

C30_RaiseAbortsBatch == [](C30_State) /\ [][C30_Step]_vars

\* the call for the second top artist raised after the first had given finds
C30_Witness ==
    /\ bpc = "raised"
    /\ bi = 2
    /\ Len(surfaced) = 1
    /\ surfaced[1].niches # <<>>
    /\ DOMAIN niche_dict # {}

====
